---------------------------- MODULE Spec2Model ----------------------------
(***************************************************************************)
(* Model of the symbol/dependency resolution of Fast-AL-Builder            *)
(* (scripts/download_symbols.py, class SymbolDownloader).                  *)
(*                                                                         *)
(* Strings are sequences of one-character strings, so that lower(),        *)
(* capitalize(), replace(), the regular expression \w+ and the substring   *)
(* test `in` are computed as Python computes them.                         *)
(***************************************************************************)
EXTENDS Integers, Sequences, FiniteSets, TLC

VARIABLES
    entry,      \* the public method that was called
    pc,         \* position in the method that is running
    arg,        \* the argument of the pure function that was called
    ret,        \* the value returned by the call that finished
    inputs,     \* bc_version, the declared dependencies, token, username
    files,      \* the symbols directory: file name -> content
    run,        \* number of the download_symbols run against the directory
    stable,     \* TRUE: a service answers every request as it did first
    net,        \* steady services: service -> the answer it gives
    success,    \* download_symbols: the local `success`
    ms,         \* platform phase: packages, loop index, success_count
    dl,         \* dependency loop: index, success_count, and per dependency
                \* the outcome and the name of the file written for it
    app,        \* download_from_appsource_feed: search_patterns, loop index
    gh,         \* GitHub fallback: selected package, version, loop index, and
                \* the download requests sent: [scheme, status answered]
    calls,      \* requests issued for the platform phase (who = 0) or for the
                \* dependency being resolved (who = its index): [who, kind]
    invoked,    \* resolvers invoked in this run: <<dependency index, resolver>>
    tried,      \* the candidates queried for the dependency being resolved,
                \* with their results
    wrote,      \* the last write_bytes of the phase or dependency: name,
                \* content written, content before
    prev        \* what the previous run left: the directory, the outcomes,
                \* the files written per dependency

vars == <<entry, pc, arg, ret, inputs, files, run, stable, net, success, ms, dl,
          app, gh, calls, invoked, tried, wrote, prev>>

(***************************************************************************)
(* Characters and Python's string methods                                  *)
(***************************************************************************)
UpperLetters == <<"A","B","C","D","E","F","G","H","I","J","K","L","M",
                  "N","O","P","Q","R","S","T","U","V","W","X","Y","Z">>
LowerLetters == <<"a","b","c","d","e","f","g","h","i","j","k","l","m",
                  "n","o","p","q","r","s","t","u","v","w","x","y","z">>
Digits == {"0","1","2","3","4","5","6","7","8","9"}

Uppers == {UpperLetters[n] : n \in 1..26}
Lowers == {LowerLetters[n] : n \in 1..26}
Alnums == Uppers \cup Lowers \cup Digits
Chars == Alnums \cup {"_", " ", "(", ")", ".", "/", "-"}

IsAlnum(c) == c \in Alnums

\* the class \w of Python's re module (ASCII part): letters, digits, underscore
WordChars == Alnums \cup {"_"}
IsWordChar(c) == c \in WordChars

LowerMap ==
    [c \in Chars |-> IF c \in Uppers
                     THEN LowerLetters[CHOOSE n \in 1..26 : UpperLetters[n] = c]
                     ELSE c]
UpperMap ==
    [c \in Chars |-> IF c \in Lowers
                     THEN UpperLetters[CHOOSE n \in 1..26 : LowerLetters[n] = c]
                     ELSE c]
LowerChar(c) == LowerMap[c]
UpperChar(c) == UpperMap[c]

\* str.lower()
Lower(s) == [n \in 1..Len(s) |-> LowerChar(s[n])]
\* str.upper()
Upper(s) == [n \in 1..Len(s) |-> UpperChar(s[n])]

\* str.capitalize(): first character upper-cased, the rest lower-cased
Capitalize(w) ==
    [n \in 1..Len(w) |-> IF n = 1 THEN UpperChar(w[n]) ELSE LowerChar(w[n])]

\* sub in s
Contains(s, sub) ==
    \E n \in 0..(Len(s) - Len(sub)) : SubSeq(s, n + 1, n + Len(sub)) = sub

\* s.endswith(suffix)
EndsWith(s, suffix) ==
    /\ Len(s) >= Len(suffix)
    /\ SubSeq(s, Len(s) - Len(suffix) + 1, Len(s)) = suffix

\* s.replace(c, '') for a single character c
RemoveChar(s, c) == SelectSeq(s, LAMBDA x : x # c)

\* s.replace(c, d) for single characters c, d
ReplaceChar(s, c, d) == [n \in 1..Len(s) |-> IF s[n] = c THEN d ELSE s[n]]

\* s.replace(sub, ''): leftmost non-overlapping occurrences removed
RECURSIVE RemoveSub(_, _)
RemoveSub(s, sub) ==
    IF Len(s) < Len(sub) THEN s
    ELSE IF SubSeq(s, 1, Len(sub)) = sub
         THEN RemoveSub(SubSeq(s, Len(sub) + 1, Len(s)), sub)
         ELSE <<s[1]>> \o RemoveSub(Tail(s), sub)

\* ''.join(words)
RECURSIVE Join(_)
Join(words) == IF words = <<>> THEN <<>> ELSE Head(words) \o Join(Tail(words))

\* re.findall(r'\w+', text): the maximal runs of word characters, in order
RECURSIVE FindWordsFrom(_, _, _)
FindWordsFrom(text, n, cur) ==
    IF n > Len(text)
    THEN IF cur = <<>> THEN <<>> ELSE <<cur>>
    ELSE IF IsWordChar(text[n])
         THEN FindWordsFrom(text, n + 1, Append(cur, text[n]))
         ELSE (IF cur = <<>> THEN <<>> ELSE <<cur>>)
              \o FindWordsFrom(text, n + 1, <<>>)
FindWords(text) == FindWordsFrom(text, 1, <<>>)

(***************************************************************************)
(* String literals of the program                                          *)
(***************************************************************************)
STR_microsoft == <<"m","i","c","r","o","s","o","f","t">>
STR_Microsoft == <<"M","i","c","r","o","s","o","f","t">>
STR_microsoft_dot == <<"m","i","c","r","o","s","o","f","t",".">>
STR_symbols == <<".","s","y","m","b","o","l","s">>
STR_linc == <<"l","i","n","c">>
STR_app == <<".","a","p","p">>
STR_dot == <<".">>
STR_bc == <<"b","c">>
STR_cloud == <<"c","l","o","u","d">>
STR_application_symbols ==
    <<"a","p","p","l","i","c","a","t","i","o","n",".","s","y","m","b","o","l","s">>
STR_baseapplication_symbols ==
    <<"b","a","s","e","a","p","p","l","i","c","a","t","i","o","n",
      ".","s","y","m","b","o","l","s">>
STR_systemapplication_symbols ==
    <<"s","y","s","t","e","m","a","p","p","l","i","c","a","t","i","o","n",
      ".","s","y","m","b","o","l","s">>
STR_platform_symbols ==
    <<"p","l","a","t","f","o","r","m",".","s","y","m","b","o","l","s">>
STR_businessfoundation_symbols ==
    <<"b","u","s","i","n","e","s","s","f","o","u","n","d","a","t","i","o","n",
      ".","s","y","m","b","o","l","s">>
STR_github_app == <<"_","g","i","t","h","u","b",".","a","p","p">>
STR_github_placeholder_app ==
    <<"_","g","i","t","h","u","b","_","p","l","a","c","e","h","o","l","d","e","r",
      ".","a","p","p">>

\* dict.get() of a key that is absent
NoKey == <<"NoKey">>
Get(d, key, default) == IF d[key] = NoKey THEN default ELSE d[key]

(***************************************************************************)
(* download_from_appsource_feed: the query candidates                      *)
(***************************************************************************)
\* ''.join(word.capitalize() for word in re.findall(r'\w+', text))
normalize_name_component(text) ==
    Join([n \in 1..Len(FindWords(text)) |-> Capitalize(FindWords(text)[n])])

\* the four patterns in priority order; None is the empty sequence here
\* (no pattern is ever the empty string: each holds a '.')
RawSearchPatterns(dep_publisher, dep_name, dep_id) ==
    LET clean_publisher == normalize_name_component(dep_publisher)
        clean_name == normalize_name_component(dep_name)
    IN  << IF dep_id # <<>>
           THEN clean_publisher \o STR_dot \o clean_name \o STR_symbols
                \o STR_dot \o dep_id
           ELSE <<>>,
           clean_publisher \o STR_dot \o clean_name \o STR_symbols,
           clean_publisher \o STR_dot \o clean_name,
           RemoveChar(RemoveChar(RemoveChar(RemoveChar(dep_publisher, " "),
                                            "("), ")"), ".")
             \o STR_dot \o RemoveChar(dep_name, " ") \o STR_symbols >>

\* filter(None, xs) alone: falsy entries dropped, repeated entries kept
KeepAll(xs) == SelectSeq(xs, LAMBDA x : x # <<>>)

\* list(dict.fromkeys(filter(None, xs))): falsy entries dropped, then every
\* entry that repeats an earlier one dropped, first-occurrence order kept
RECURSIVE DictFromKeys(_, _)
DictFromKeys(xs, seen) ==
    IF xs = <<>> THEN <<>>
    ELSE IF Head(xs) = <<>> \/ Head(xs) \in seen
         THEN DictFromKeys(Tail(xs), seen)
         ELSE <<Head(xs)>> \o DictFromKeys(Tail(xs), seen \cup {Head(xs)})

FilterDedupe(xs) == DictFromKeys(xs, {})

SearchPatterns(dep_publisher, dep_name, dep_id) ==
    FilterDedupe(RawSearchPatterns(dep_publisher, dep_name, dep_id))

(***************************************************************************)
(* The symbols directory                                                   *)
(***************************************************************************)
\* check_existing_symbols: "st_size > 1000"
SizeThreshold == 1000

\* Path.write_bytes(data): creates the file or replaces its content
WriteBytes(fs, name, content) ==
    [n \in (DOMAIN fs) \cup {name} |-> IF n = name THEN content ELSE fs[n]]

\* symbols_dir.glob("*.app")
GlobApp(fs) == {n \in DOMAIN fs : EndsWith(n, STR_app)}

\* a strict comparison replaced by a non-strict one
check_existing_symbols_ge(fs) ==
    {n \in GlobApp(fs) : fs[n].size >= SizeThreshold}

\* check_existing_symbols: the *.app files larger than 1000 bytes
check_existing_symbols(fs) ==
    {n \in GlobApp(fs) : fs[n].size > SizeThreshold}

\* path.split('/')[-1]
RECURSIVE BaseName(_)
BaseName(path) ==
    IF \E n \in 1..Len(path) : path[n] = "/"
    THEN BaseName(SubSeq(path, (CHOOSE n \in 1..Len(path) : path[n] = "/") + 1,
                         Len(path)))
    ELSE path

(***************************************************************************)
(* get_bc_version_info, get_microsoft_symbol_packages_alget_style          *)
(***************************************************************************)
DigitValue(c) ==
    CASE c = "0" -> 0 [] c = "1" -> 1 [] c = "2" -> 2 [] c = "3" -> 3
      [] c = "4" -> 4 [] c = "5" -> 5 [] c = "6" -> 6 [] c = "7" -> 7
      [] c = "8" -> 8 [] c = "9" -> 9

LatestMajor == 26
FirstMajor == 17
BusinessFoundationMajor == 24

\* the major version of version_map[bc_clean]["version"]; every key that is
\* not "17".."26" (the empty key included) maps to 26.0
get_bc_version_info(bc_version) ==
    LET bc_clean == RemoveSub(RemoveSub(Lower(bc_version), STR_bc), STR_cloud)
    IN  IF /\ Len(bc_clean) = 2
           /\ bc_clean[1] \in Digits
           /\ bc_clean[2] \in Digits
           /\ 10 * DigitValue(bc_clean[1]) + DigitValue(bc_clean[2])
                \in FirstMajor..LatestMajor
        THEN 10 * DigitValue(bc_clean[1]) + DigitValue(bc_clean[2])
        ELSE LatestMajor

\* the business-foundation package only after version 24
get_microsoft_symbol_packages_after(major_version) ==
    << STR_application_symbols, STR_baseapplication_symbols,
       STR_systemapplication_symbols, STR_platform_symbols >>
    \o (IF major_version > BusinessFoundationMajor
        THEN <<STR_businessfoundation_symbols>> ELSE <<>>)

\* the search patterns of the core packages, in order
get_microsoft_symbol_packages_alget_style(major_version) ==
    << STR_application_symbols, STR_baseapplication_symbols,
       STR_systemapplication_symbols, STR_platform_symbols >>
    \o (IF major_version >= BusinessFoundationMajor
        THEN <<STR_businessfoundation_symbols>> ELSE <<>>)

(***************************************************************************)
(* download_microsoft_symbol_package, download_specific_package            *)
(***************************************************************************)
\* the entry picked when no id matches: the last one instead of the first
SelectPackageLast(package_pattern, packages) ==
    IF packages = <<>> THEN 0
    ELSE LET hits == {n \in 1..Len(packages) :
                        Contains(Lower(Get(packages[n], "id", <<>>)),
                                 Lower(package_pattern))}
         IN  IF hits # {} THEN CHOOSE n \in hits : \A m \in hits : n <= m
             ELSE Len(packages)

\* lines 301-321: index of the entry of search_data['data'] that is
\* downloaded, 0 when the list is empty
SelectPackage(package_pattern, packages) ==
    IF packages = <<>> THEN 0
    ELSE LET hits == {n \in 1..Len(packages) :
                        Contains(Lower(Get(packages[n], "id", <<>>)),
                                 Lower(package_pattern))}
         IN  IF hits # {} THEN CHOOSE n \in hits : \A m \in hits : n <= m
             ELSE 1

\* [name for name in zip_file.namelist() if name.endswith('.app')]
AppEntries(entries) == SelectSeq(entries, LAMBDA e : EndsWith(e.name, STR_app))

\* lines 380-389: one .app entry written under its base name
ExtractEntry(fs, e) == WriteBytes(fs, BaseName(e.name), e.content)

\* lines 380-393: every .app entry extracted, in archive order
RECURSIVE ExtractAll(_, _)
ExtractAll(fs, app_files) ==
    IF app_files = <<>> THEN fs
    ELSE ExtractAll(ExtractEntry(fs, Head(app_files)), Tail(app_files))

\* no file of that name, and no write so far
NoFile == [size |-> -1, data |-> "absent"]
NoWrite == [name |-> <<>>, content |-> NoFile, before |-> NoFile, by |-> "none"]

\* the last write of ExtractAll: [name, content, before]
LastWrite(fs, app_files) ==
    LET n == Len(app_files)
        before == ExtractAll(fs, SubSeq(app_files, 1, n - 1))
        name == BaseName(app_files[n].name)
    IN  [name |-> name, content |-> app_files[n].content,
         before |-> IF name \in DOMAIN before THEN before[name] ELSE NoFile,
         by |-> "feed"]

\* download_specific_package on the feed's answers r.index2 and r.nupkg:
\* [result, files, kinds of request issued, wrote]
download_specific_package(r, fs) ==
    LET failed(kinds) == [result |-> FALSE, files |-> fs, kinds |-> kinds,
                          wrote |-> NoWrite]
    IN  IF r.index2 # "ok" THEN failed({"index"})
        ELSE IF r.nupkg.status # "ok" THEN failed({"index", "download"})
        ELSE IF AppEntries(r.nupkg.entries) = <<>>
             THEN failed({"index", "download"})
        ELSE [result |-> TRUE,
              files |-> ExtractAll(fs, AppEntries(r.nupkg.entries)),
              kinds |-> {"index", "download"},
              wrote |-> LastWrite(fs, AppEntries(r.nupkg.entries))]

\* download_microsoft_symbol_package on the feed's answers r:
\* download_specific_package for the entry selected, if any
download_microsoft_symbol_package(package_pattern, r, fs) ==
    LET failed(kinds) == [result |-> FALSE, files |-> fs, kinds |-> kinds,
                          wrote |-> NoWrite]
    IN  IF r.index # "ok" THEN failed({"index"})
        ELSE IF r.search.status # "ok" THEN failed({"index", "search"})
        ELSE IF SelectPackage(package_pattern, r.search.data) = 0
             THEN failed({"index", "search"})
        ELSE [download_specific_package(r, fs) EXCEPT !.kinds = @ \cup {"search"}]

(***************************************************************************)
(* download_from_linc_github and the methods it calls                      *)
(***************************************************************************)
\* re.sub(r'[^\w]', '', text)
StripNonWord(text) == SelectSeq(text, IsWordChar)

\* lines 551-556: the package name looked for in the registry
GithubPackageName(dep_publisher, dep_name, dep_id) ==
    StripNonWord(dep_publisher) \o STR_dot \o StripNonWord(dep_name)
    \o STR_symbols \o (IF dep_id # <<>> THEN STR_dot \o dep_id ELSE <<>>)

\* lines 592-596: the packages of the list whose name matches
MatchingPackages(packages, package_name, dep_id) ==
    SelectSeq(packages,
              LAMBDA pkg : \/ Contains(Lower(Get(pkg, "name", <<>>)),
                                       Lower(package_name))
                           \/ Contains(Get(pkg, "name", <<>>), dep_id))

\* .replace(' ', '_').replace('(', '').replace(')', '').replace('.', '_')
SafeFileName(s) ==
    ReplaceChar(RemoveChar(RemoveChar(ReplaceChar(s, " ", "_"), "("), ")"),
                ".", "_")

\* lines 863-864
GithubFileName(publisher, name) ==
    SafeFileName(publisher \o <<"_">> \o name \o STR_github_app)

\* lines 911-912
PlaceholderFileName(publisher, name) ==
    SafeFileName(publisher \o <<"_">> \o name \o STR_github_placeholder_app)

\* len() of the placeholder text with its four fields empty
PlaceholderBaseSize == 699
ReasonPrivate == "Private package - authentication required"
ReasonFailed == "Download failed"
ReasonLen(reason) == IF reason = ReasonPrivate THEN 41 ELSE 15

\* lines 889-909: the bytes written to a placeholder
PlaceholderContent(package_name, publisher, name, reason) ==
    [size |-> PlaceholderBaseSize + Len(package_name) + Len(publisher)
              + Len(name) + ReasonLen(reason),
     data |-> reason]

\* _create_github_placeholder: the directory after it
create_github_placeholder(fs, package_name, publisher, name, reason) ==
    WriteBytes(fs, PlaceholderFileName(publisher, name),
               PlaceholderContent(package_name, publisher, name, reason))

\* _process_nupkg_download on a 200 response with the given body:
\* [result, files, wrote]
process_nupkg_download(body, publisher, name, fs) ==
    IF body.status # "ok" \/ AppEntries(body.entries) = <<>>
    THEN [result |-> FALSE, files |-> fs, wrote |-> NoWrite]
    ELSE LET app_file == Head(AppEntries(body.entries))
             target == GithubFileName(publisher, name)
         IN  [result |-> TRUE,
              files |-> WriteBytes(fs, target, app_file.content),
              wrote |-> [name |-> target, content |-> app_file.content,
                         before |-> IF target \in DOMAIN fs THEN fs[target]
                                    ELSE NoFile,
                         by |-> "github"]]

\* the legacy header tried before the bearer header
AuthFormatsTokenFirst == <<"token", "Bearer", "X-NuGet-ApiKey">>

\* lines 752-756: the authentication headers of _try_nuget_v3_download
AuthFormats == <<"Bearer", "token", "X-NuGet-ApiKey">>

\* an authentication error ends the loop
MovesOnUnlessAuth(status) == status \notin {200, 401, 403}

\* lines 768-776 and 821-828: the loop goes on to the next header (or user
\* name) after an HTTPError of any code, and after a response that is not 200
MovesOn(status) == status # 200

\* lines 792-796: the user names of _try_github_basic_auth
UsernamesToTry(github_username) ==
    (IF github_username # NoKey /\ github_username # <<>>
     THEN <<github_username>> ELSE <<>>)
    \o << <<"a","t","t","i","e","r","e","t","i","e","f">>,
          <<"t","o","k","e","n">> >>

(***************************************************************************)
(* Inputs: dependencies, directories, answers of the feeds                 *)
(***************************************************************************)
MaxDeps == 2
MaxRuns == 2

P_Linc == <<"L","I","N","C"," ","C","o",".">>
P_Acme == <<"A","c","m","e">>
N_App == <<"A","p","p">>
N_Ext == <<"M","y"," ","E","x","t">>
ID_x == <<"x","1">>
ID_Other == <<"Z","e","d",".","P","k","g">>
V1 == <<"1",".","2",".","0">>
V2 == <<"1",".","1",".","0">>
F_System == <<"S","y","s","t","e","m",".","a","p","p">>
F_Notes == <<"n","o","t","e","s",".","t","x","t">>
E_System == <<"l","i","b","/","S","y","s","t","e","m",".","a","p","p">>
E_Dep == <<"D","e","p",".","a","p","p">>
E_Readme == <<"r","e","a","d","m","e",".","t","x","t">>
U_Me == <<"m","e">>

Dep(publisher, name, id) == [publisher |-> publisher, name |-> name, id |-> id]

\* the dependencies a manifest may declare
DepPool ==
    { Dep(STR_Microsoft, N_App, <<>>),
      Dep(P_Linc, N_Ext, ID_x),
      Dep(P_Acme, N_App, <<>>) }

\* the dependencies download_from_linc_github may be called with
DirectPool ==
    DepPool \cup { Dep(NoKey, N_App, <<>>),
                   Dep(Upper(STR_linc), <<>>, <<>>),
                   Dep(<<"B","l","i","n","c","o">>, N_App, <<>>) }

RECURSIVE SeqsUpTo(_, _)
SeqsUpTo(S, n) ==
    IF n = 0 THEN {<<>>}
    ELSE SeqsUpTo(S, n - 1)
         \cup {Append(s, x) : s \in {t \in SeqsUpTo(S, n - 1) : Len(t) = n - 1},
                              x \in S}

\* the dependency lists of a manifest: no dependency is declared twice
DepLists ==
    {s \in SeqsUpTo(DepPool, MaxDeps) :
       \A i, j \in 1..Len(s) : s[i] = s[j] => i = j}

Content(size, data) == [size |-> size, data |-> data]
BigContent == Content(SizeThreshold + 1, "big")
SmallContent == Content(SizeThreshold, "small")

\* the directory before the first run
InitialDirs ==
    { <<>>,
      [n \in {F_System} |-> Content(SizeThreshold + 1, "sentinel")],
      [n \in {E_Dep} |-> Content(SizeThreshold + 1, "sentinel")],
      [n \in {F_System, F_Notes, GithubFileName(P_Linc, N_Ext)}
         |-> IF n = F_System THEN Content(SizeThreshold, "sentinel")
             ELSE Content(SizeThreshold + 1, "sentinel")] }

Archives ==
    { << [name |-> E_Readme, content |-> SmallContent] >>,
      << [name |-> E_System, content |-> BigContent],
         [name |-> E_Readme, content |-> SmallContent] >>,
      << [name |-> E_Dep, content |-> SmallContent],
         [name |-> F_System, content |-> SmallContent] >> }

Bodies ==
    {[status |-> "badzip", entries |-> <<>>]}
    \cup {[status |-> "ok", entries |-> a] : a \in Archives}

Pkg(id) == [id |-> id, version |-> V1]

\* what a feed may answer to the requests of download_microsoft_symbol_package
\* for one pattern: the feed index, the search, the feed index again, the nupkg
FeedAnswer(index, sstatus, data, index2, nupkg) ==
    [index |-> index, search |-> [status |-> sstatus, data |-> data],
     index2 |-> index2, nupkg |-> nupkg]

NoBody == [status |-> "error", entries |-> <<>>]

FeedAnswers(pattern) ==
    { FeedAnswer("error", "error", <<>>, "error", NoBody),
      FeedAnswer("no_search", "error", <<>>, "error", NoBody),
      FeedAnswer("ok", "error", <<>>, "error", NoBody),
      FeedAnswer("ok", "ok", <<>>, "error", NoBody) }
    \cup { FeedAnswer("ok", "ok", data, index2, NoBody) :
             data \in { <<Pkg(ID_Other)>>, <<Pkg(ID_Other), Pkg(Upper(pattern))>> },
             index2 \in {"error", "no_base", "ok"} }
    \cup { FeedAnswer("ok", "ok", data, "ok", body) :
             data \in { <<Pkg(ID_Other)>>, <<Pkg(ID_Other), Pkg(Upper(pattern))>> },
             body \in Bodies }

BC_23 == <<"b","c","2","3">>
BC_Cloud == <<"B","C","c","l","o","u","d">>
Token == <<"t","o","k">>

\* bc_version, linc_token, the GITHUB_TOKEN of the environment, github_username
Settings ==
    { [bc_version |-> BC_23, linc_token |-> <<>>, env_token |-> <<>>,
       github_username |-> <<>>],
      [bc_version |-> BC_Cloud, linc_token |-> Token, env_token |-> <<>>,
       github_username |-> U_Me],
      [bc_version |-> BC_23, linc_token |-> <<>>, env_token |-> Token,
       github_username |-> <<>>] }

\* answers of the registry: the packages list, the versions of a package
GithubListAnswers(package_name) ==
    { [status |-> s, data |-> <<>>] : s \in {"http_error", "error", "not200", "ok"} }
    \cup { [status |-> "ok", data |-> d] :
             d \in { << [name |-> ID_Other, url |-> <<"u","0">>] >>,
                     << [name |-> ID_Other, url |-> <<"u","0">>],
                        [name |-> Upper(package_name), url |-> <<"u","1">>] >> } }

VersionsAnswers ==
    { [status |-> s, data |-> <<>>] : s \in {"http_error", "error", "not200", "ok"} }
    \cup { [status |-> "ok", data |-> d] :
             d \in { << [name |-> V1], [name |-> V2] >>, << [name |-> V1] >>,
                     << [name |-> NoKey] >> } }

ApiAnswers ==
    { [status |-> "error", data |-> <<>>] }
    \cup { [status |-> "ok", data |-> d] :
             d \in { <<>>,
                     << [name |-> V1, package_files |-> FALSE] >>,
                     << [name |-> V2, package_files |-> TRUE],
                        [name |-> V1, package_files |-> TRUE] >> } }

\* answers to a download request: an HTTP status, and the body of a 200
DownloadAnswers ==
    { [status |-> s, body |-> NoBody] : s \in {401, 404} }
    \cup { [status |-> 200, body |-> b] : b \in Bodies }

\* steady services: a feed that finds nothing or serves a package with an
\* .app entry, a registry that refuses or lists, a download that is refused,
\* corrupt or good
SteadyFeedAnswers(pattern) ==
    {r \in FeedAnswers(pattern) :
       \/ r.index = "ok" /\ r.search.status = "ok" /\ r.search.data = <<>>
       \/ r.nupkg.status = "ok" /\ AppEntries(r.nupkg.entries) # <<>>
          /\ Len(r.search.data) = 2}
SteadyListAnswers(package_name) ==
    {r \in GithubListAnswers(package_name) :
       r.status = "http_error" \/ Len(r.data) = 2}
SteadyVersionsAnswers ==
    {r \in VersionsAnswers : r.status \in {"http_error", "not200"}
                              \/ Len(r.data) = 2}
SteadyApiAnswers == {r \in ApiAnswers : r.status = "error" \/ Len(r.data) = 2}
SteadyDownloadAnswers ==
    {r \in DownloadAnswers : \/ r.status = 401
                             \/ r.body.status = "badzip"
                             \/ Len(AppEntries(r.body.entries)) = 1}

(***************************************************************************)
(* State                                                                   *)
(***************************************************************************)
MsIdle == [packages |-> <<>>, j |-> 0, count |-> 0, skipped |-> FALSE]
AppIdle == [patterns |-> <<>>, k |-> 0]
GhIdle == [package_name |-> <<>>, version |-> <<>>, n |-> 0, attempts |-> <<>>]
\* nothing is known of a previous run
NoPrev == [files |-> <<>>, outcome |-> <<>>, artifact |-> <<>>]
DlStart(deps) == [i |-> 1, count |-> 0,
                  outcome |-> [n \in 1..Len(deps) |-> "pending"],
                  artifact |-> [n \in 1..Len(deps) |-> <<>>]]

deps == inputs.dependencies

\* the answers a service may give: any of them at every request, or, when
\* the services are steady, one of the steady ones at the first request and
\* the same one at every later request
Answer(key, answers, steady) ==
    IF ~stable THEN answers
    ELSE IF key \in DOMAIN net THEN {net[key]}
    ELSE answers \cap steady
Remember(key, r) ==
    IF stable
    THEN [k \in (DOMAIN net) \cup {key} |-> IF k = key THEN r ELSE net[k]]
    ELSE net

InitRun(e, p) ==
    /\ entry = e
    /\ pc = p
    /\ arg = <<>>
    /\ ret = FALSE
    /\ run = 1
    /\ net = <<>>
    /\ success = TRUE
    /\ ms = MsIdle
    /\ dl = DlStart(deps)
    /\ app = AppIdle
    /\ gh = GhIdle
    /\ calls = {}
    /\ invoked = {}
    /\ tried = <<>>
    /\ wrote = NoWrite
    /\ prev = NoPrev

\* a call of download_symbols, or of download_from_linc_github alone
Init ==
    /\ stable = FALSE
    /\ files \in InitialDirs
    /\ \/ /\ \E d \in DepLists, c \in Settings :
               inputs = [bc_version |-> c.bc_version, dependencies |-> d,
                         linc_token |-> c.linc_token, self_token |-> c.linc_token,
                         env_token |-> c.env_token,
                         github_username |-> c.github_username]
          /\ InitRun("download_symbols", "start")
       \/ /\ \E d \in DirectPool, c \in Settings :
               inputs = [bc_version |-> c.bc_version, dependencies |-> <<d>>,
                         linc_token |-> c.linc_token, self_token |-> NoKey,
                         env_token |-> c.env_token, github_username |-> NoKey]
          /\ InitRun("download_from_linc_github", "gh_start")

(***************************************************************************)
(* download_symbols                                                        *)
(***************************************************************************)
Issued(who, kinds) == calls \cup {[who |-> who, kind |-> k] : k \in kinds}

\* lines 966-980: the token and user name are stored, success = True
Start ==
    /\ pc = "start"
    /\ pc' = "platform"
    /\ success' = TRUE
    /\ UNCHANGED <<entry, arg, ret, inputs, files, run, stable, net, ms, dl, app,
                   gh, calls, invoked, tried, wrote, prev>>

\* a failed platform phase ends the run at the summary
AfterPlatformAbort(ok) == IF ok THEN "deps" ELSE "summary"

\* lines 982-988: a failed platform phase only sets success to False; the
\* dependencies are the next step whatever download_microsoft_symbols_simple
\* returned
AfterPlatform(ok) == "deps"

\* download_microsoft_symbols_simple when check_existing_symbols finds files
PlatformSkip ==
    /\ pc = "platform"
    /\ check_existing_symbols(files) # {}
    /\ ms' = [MsIdle EXCEPT !.skipped = TRUE]
    /\ pc' = AfterPlatform(TRUE)
    /\ UNCHANGED <<entry, arg, ret, inputs, files, run, stable, net, success, dl,
                   app, gh, calls, invoked, tried, wrote, prev>>

\* download_symbols_via_nuget up to its loop: setup_microsoft_nuget_feeds
\* (add_nuget_source for the two feeds), then the package list
PlatformSetup ==
    /\ pc = "platform"
    /\ check_existing_symbols(files) = {}
    /\ \E added \in Answer("feed_setup", SUBSET {"MSSymbols", "AppSourceSymbols"},
                           {{}, {"MSSymbols", "AppSourceSymbols"}}) :
         /\ net' = Remember("feed_setup", added)
         /\ calls' = Issued(0, {"feed_setup"})
         /\ IF added = {}
            THEN /\ success' = FALSE
                 /\ ms' = MsIdle
                 /\ pc' = AfterPlatform(FALSE)
            ELSE /\ success' = success
                 /\ ms' = [packages |-> get_microsoft_symbol_packages_alget_style(
                                           get_bc_version_info(inputs.bc_version)),
                           j |-> 1, count |-> 0, skipped |-> FALSE]
                 /\ pc' = "ms_packages"
    /\ UNCHANGED <<entry, arg, ret, inputs, files, run, stable, dl, app, gh,
                   invoked, tried, wrote, prev>>

\* line 289: the query sent to the search service
SearchQuery(package_pattern) == RemoveSub(Lower(package_pattern), STR_microsoft_dot)

\* the platform phase succeeds whatever was downloaded
PlatformSucceededAlways(success_count) == TRUE

\* lines 119-123: download_symbols_via_nuget returns whether at least one
\* package was downloaded
PlatformSucceeded(success_count) == success_count > 0

\* one round of the loop of download_symbols_via_nuget (lines 114-123); after
\* the last one the method returns whether success_count > 0
PlatformPackage ==
    /\ pc = "ms_packages"
    /\ LET pattern == ms.packages[ms.j]
           key == "feed_MSSymbols"
       IN  \E r \in Answer(key, FeedAnswers(pattern),
                              SteadyFeedAnswers(pattern)) :
           \E d \in {download_microsoft_symbol_package(pattern, r, files)} :
             /\ net' = Remember(key, r)
             /\ files' = d.files
             /\ calls' = Issued(0, d.kinds)
             /\ wrote' = IF d.result THEN d.wrote ELSE wrote
             /\ IF ms.j = Len(ms.packages)
                THEN LET ok == PlatformSucceeded(
                                   ms.count + (IF d.result THEN 1 ELSE 0))
                     IN  /\ pc' = AfterPlatform(ok)
                         /\ ms' = MsIdle
                         /\ success' = (success /\ ok)
                ELSE /\ pc' = "ms_packages"
                     /\ ms' = [ms EXCEPT !.j = ms.j + 1,
                                         !.count = ms.count + (IF d.result THEN 1 ELSE 0)]
                     /\ success' = success
    /\ UNCHANGED <<entry, arg, ret, inputs, run, stable, dl, app, gh, invoked,
                   tried, prev>>

(***************************************************************************)
(* download_custom_dependencies, download_from_appsource_feed              *)
(***************************************************************************)
\* lines 430, 471, 534: 'linc' in dep_publisher.lower()
IsLincPublisher(dep_publisher) == Contains(Lower(dep_publisher), STR_linc)

\* an exact comparison in place of the case-insensitive one
IsMicrosoftExact(dep_publisher) == dep_publisher = STR_microsoft

\* line 425: dep_publisher.lower() == 'microsoft'
IsMicrosoft(dep_publisher) == Lower(dep_publisher) = STR_microsoft

\* the fallback for every publisher
FallbackEligibleAll(dep_publisher) == TRUE

\* line 440: whether the GitHub fallback is tried after AppSource failed
FallbackEligible(dep_publisher) == IsLincPublisher(dep_publisher)

\* download_from_linc_github without the test of line 534
GithubPreconditionNone(dep_publisher) == TRUE

\* line 534: the publisher check of download_from_linc_github itself
GithubPrecondition(dep_publisher) == IsLincPublisher(dep_publisher)

\* a dependency that failed ends the loop
DepDoneAbort(how, w) ==
    /\ dl' = [i |-> IF how = "failed" THEN Len(deps) + 1 ELSE dl.i + 1,
              count |-> dl.count + (IF how = "failed" THEN 0 ELSE 1),
              outcome |-> [dl.outcome EXCEPT ![dl.i] = how],
              artifact |-> [dl.artifact EXCEPT ![dl.i] = w.name]]
    /\ pc' = "deps"

\* the loop of download_custom_dependencies moves to the next dependency
\* (w: the file written for this dependency, if any)
DepDone(how, w) ==
    /\ dl' = [i |-> dl.i + 1,
              count |-> dl.count + (IF how = "failed" THEN 0 ELSE 1),
              outcome |-> [dl.outcome EXCEPT ![dl.i] = how],
              artifact |-> [dl.artifact EXCEPT ![dl.i] = w.name]]
    /\ pc' = "deps"

\* lines 439-454: download_from_appsource_feed returned False
AppSourceFailed(dep_publisher) ==
    IF FallbackEligible(dep_publisher)
    THEN /\ invoked' = invoked \cup {<<dl.i, "appsource">>, <<dl.i, "github">>}
         /\ pc' = "gh_start"
         /\ dl' = dl
    ELSE /\ invoked' = invoked \cup {<<dl.i, "appsource">>}
         /\ DepDone("failed", NoWrite)

\* a run fails when a dependency was not resolved
AfterDependenciesStrict(ok, success_count, total) == ok /\ success_count = total

\* lines 456-457 and 988-992: download_custom_dependencies returns True
\* whatever success_count is, and download_symbols leaves success as it was
AfterDependencies(ok, success_count, total) == ok

\* the head of the loop (lines 419-437) and the first lines of
\* download_from_appsource_feed (463-500); after the last dependency,
\* download_custom_dependencies returns True
DepNext ==
    /\ pc = "deps"
    /\ calls' = {}
    /\ tried' = <<>>
    /\ wrote' = NoWrite
    /\ gh' = GhIdle
    /\ IF dl.i > Len(deps)
       THEN /\ pc' = "summary"
            /\ success' = AfterDependencies(success, dl.count, Len(deps))
            /\ UNCHANGED <<dl, app, invoked>>
       ELSE LET dep == deps[dl.i]
                dep_publisher == Get(dep, "publisher", STR_Microsoft)
            IN  /\ success' = success
                /\ IF IsMicrosoft(dep_publisher)
                   THEN /\ DepDone("skipped", NoWrite)
                        /\ UNCHANGED <<app, invoked>>
                   ELSE IF dep.name = <<>> \/ dep_publisher = <<>>
                        THEN /\ AppSourceFailed(dep_publisher)
                             /\ app' = AppIdle
                        ELSE /\ app' = [patterns |-> SearchPatterns(dep_publisher,
                                                       dep.name, dep.id),
                                        k |-> 1]
                             /\ invoked' = invoked \cup {<<dl.i, "appsource">>}
                             /\ pc' = "appsource"
                             /\ dl' = dl
    /\ UNCHANGED <<entry, arg, ret, inputs, files, run, stable, net, ms, prev>>

\* the loop stops only after the last pattern
TryNextPatternAlways(result, k, n) == k < n

\* lines 505-519: another pattern is tried when this one failed and one is left
TryNextPattern(result, k, n) == ~result /\ k < n

\* one round of the loop of download_from_appsource_feed (lines 505-516)
AppSourceTry ==
    /\ pc = "appsource"
    /\ LET pattern == app.patterns[app.k]
           key == "feed_AppSourceSymbols"
           dep_publisher == deps[dl.i].publisher
       IN  \E r \in Answer(key, FeedAnswers(pattern),
                              SteadyFeedAnswers(pattern)) :
           \E d \in {download_microsoft_symbol_package(pattern, r, files)} :
             /\ net' = Remember(key, r)
             /\ files' = d.files
             /\ calls' = Issued(dl.i, d.kinds)
             /\ wrote' = IF d.result THEN d.wrote ELSE wrote
             /\ tried' = Append(tried, [pattern |-> pattern, result |-> d.result])
             /\ IF TryNextPattern(d.result, app.k, Len(app.patterns))
                THEN /\ app' = [app EXCEPT !.k = app.k + 1]
                     /\ UNCHANGED <<pc, dl, invoked>>
                ELSE /\ app' = AppIdle
                     /\ IF d.result
                        THEN /\ DepDone("appsource", d.wrote)
                             /\ UNCHANGED invoked
                        ELSE AppSourceFailed(dep_publisher)
    /\ UNCHANGED <<entry, arg, ret, inputs, run, stable, success, ms, gh, prev>>

\* lines 994-1012: the inventory of *.app files
Summary ==
    /\ pc = "summary"
    /\ success' = (success /\ GlobApp(files) # {})
    /\ ret' = (success /\ GlobApp(files) # {})
    /\ pc' = "done"
    /\ UNCHANGED <<entry, arg, inputs, files, run, stable, net, ms, dl, app, gh,
                   calls, invoked, tried, wrote, prev>>

(***************************************************************************)
(* download_from_linc_github, download_nuget_package_from_github           *)
(***************************************************************************)
\* download_from_linc_github returns to its caller
GithubReturn(result, w) ==
    IF entry = "download_from_linc_github"
    THEN /\ pc' = "returned"
         /\ ret' = result
         /\ dl' = dl
    ELSE /\ ret' = ret
         /\ DepDone(IF result THEN "github" ELSE "failed", w)

\* _create_github_placeholder, whose result (True) is returned
GithubPlaceholder(package_name, publisher, name, reason) ==
    /\ files' = create_github_placeholder(files, package_name, publisher, name,
                                          reason)
    /\ wrote' = [name |-> PlaceholderFileName(publisher, name),
                 content |-> PlaceholderContent(package_name, publisher, name,
                                                reason),
                 before |-> IF PlaceholderFileName(publisher, name) \in DOMAIN files
                            THEN files[PlaceholderFileName(publisher, name)]
                            ELSE NoFile,
                 by |-> "placeholder"]
    /\ GithubReturn(TRUE, [NoWrite EXCEPT
                             !.name = PlaceholderFileName(publisher, name)])

\* download_from_linc_github (lines 525-630) and
\* download_nuget_package_from_github up to its first download method
\* (lines 635-672, and the handlers of lines 694-705)
GithubStart ==
    /\ pc = "gh_start"
    /\ LET dep == deps[dl.i]
           dep_name == Get(dep, "name", <<>>)
           dep_publisher == Get(dep, "publisher", <<>>)
           dep_id == Get(dep, "id", <<>>)
           package_name == GithubPackageName(dep_publisher, dep_name, dep_id)
           lkey == "gh_list"
           quiet == /\ GithubReturn(FALSE, NoWrite)
                    /\ UNCHANGED <<files, wrote, gh>>
       IN  IF dep_name = <<>> \/ dep_publisher = <<>>
              \/ ~GithubPrecondition(dep_publisher)
           THEN /\ quiet
                /\ UNCHANGED <<net, calls>>
           ELSE \E lr \in Answer(lkey, GithubListAnswers(package_name),
                                   SteadyListAnswers(package_name)) :
             LET matching == MatchingPackages(lr.data, package_name, dep_id)
                 selected == Get(matching[1], "name", <<>>)
                 token == IF inputs.self_token # <<>> THEN inputs.self_token
                          ELSE inputs.env_token
                 vkey == "gh_versions"
             IN  IF lr.status # "ok" \/ matching = <<>>
                 THEN /\ quiet
                      /\ net' = Remember(lkey, lr)
                      /\ calls' = Issued(dl.i, {"gh_list"})
                 ELSE IF inputs.self_token = NoKey
                 THEN \* self.github_token was never assigned
                      /\ GithubPlaceholder(selected, dep_publisher, dep_name,
                                           ReasonFailed)
                      /\ net' = Remember(lkey, lr)
                      /\ calls' = Issued(dl.i, {"gh_list"})
                      /\ gh' = gh
                 ELSE IF token = <<>>
                 THEN /\ quiet
                      /\ net' = Remember(lkey, lr)
                      /\ calls' = Issued(dl.i, {"gh_list"})
                 ELSE \E vr \in Answer(vkey, VersionsAnswers,
                                        SteadyVersionsAnswers) :
                      /\ calls' = Issued(dl.i, {"gh_list", "gh_versions"})
                      /\ net' = IF stable
                                THEN [k \in (DOMAIN net) \cup {lkey, vkey} |->
                                        IF k = lkey THEN lr
                                        ELSE IF k = vkey THEN vr ELSE net[k]]
                                ELSE net
                      /\ IF vr.status = "http_error"
                         THEN /\ GithubPlaceholder(selected, dep_publisher,
                                                   dep_name, ReasonPrivate)
                              /\ gh' = gh
                         ELSE IF vr.status = "error"
                                 \/ (vr.status = "ok" /\ vr.data # <<>>
                                     /\ vr.data[1].name = NoKey)
                         THEN /\ GithubPlaceholder(selected, dep_publisher,
                                                   dep_name, ReasonFailed)
                              /\ gh' = gh
                         ELSE IF vr.status = "not200" \/ vr.data = <<>>
                         THEN quiet
                         ELSE /\ gh' = [package_name |-> selected,
                                        version |-> vr.data[1].name, n |-> 1,
                                        attempts |-> <<>>]
                              /\ pc' = "gh_api"
                              /\ UNCHANGED <<files, wrote, dl, ret>>
    /\ UNCHANGED <<entry, arg, inputs, run, stable, success, ms, app, invoked,
                   tried, prev>>

\* _try_github_api_download (lines 707-738): True as soon as the version
\* found has 'package_files'; nothing is downloaded
GithubApi ==
    /\ pc = "gh_api"
    /\ LET key == "gh_api"
       IN  \E ar \in Answer(key, ApiAnswers, SteadyApiAnswers) :
             /\ net' = Remember(key, ar)
             /\ calls' = Issued(dl.i, {"gh_api"})
             /\ IF /\ ar.status = "ok"
                   /\ \E n \in 1..Len(ar.data) :
                        ar.data[n].name = gh.version /\ ar.data[n].package_files
                THEN /\ GithubReturn(TRUE, NoWrite)
                     /\ gh' = gh
                ELSE /\ pc' = "gh_nuget"
                     /\ UNCHANGED <<gh, dl, ret>>
    /\ UNCHANGED <<entry, arg, inputs, files, run, stable, success, ms, app,
                   invoked, tried, wrote, prev>>

\* one round of the loop of _try_nuget_v3_download (lines 758-780); a False
\* of the method leads to _try_github_basic_auth
GithubNuget ==
    /\ pc = "gh_nuget"
    /\ LET scheme == AuthFormats[gh.n]
           key == "gh_download"
           dep == deps[dl.i]
       IN  \E resp \in Answer(key, DownloadAnswers, SteadyDownloadAnswers) :
           \E d \in {process_nupkg_download(resp.body, dep.publisher, dep.name,
                                            files)} :
             LET tried_now == [gh EXCEPT !.attempts =
                                Append(@, [scheme |-> scheme,
                                           status |-> resp.status,
                                           ok |-> resp.status = 200 /\ d.result])]
             IN  /\ net' = Remember(key, resp)
                 /\ calls' = Issued(dl.i, {"gh_download"})
                 /\ IF resp.status = 200 /\ d.result
                    THEN /\ files' = d.files
                         /\ wrote' = d.wrote
                         /\ gh' = tried_now
                         /\ GithubReturn(TRUE, d.wrote)
                    ELSE /\ UNCHANGED <<files, wrote, dl, ret>>
                         /\ IF MovesOn(resp.status) /\ gh.n < Len(AuthFormats)
                            THEN /\ gh' = [tried_now EXCEPT !.n = gh.n + 1]
                                 /\ pc' = pc
                            ELSE /\ gh' = [tried_now EXCEPT !.n = 1]
                                 /\ pc' = "gh_basic"
    /\ UNCHANGED <<entry, arg, inputs, run, stable, success, ms, app, invoked,
                   tried, prev>>

\* one round of the loop of _try_github_basic_auth (lines 803-832), whose
\* result is the result of download_nuget_package_from_github
GithubBasic ==
    /\ pc = "gh_basic"
    /\ LET usernames == UsernamesToTry(inputs.github_username)
           key == "gh_download"
           dep == deps[dl.i]
       IN  \E resp \in Answer(key, DownloadAnswers, SteadyDownloadAnswers) :
           \E d \in {process_nupkg_download(resp.body, dep.publisher, dep.name,
                                            files)} :
             LET tried_now == [gh EXCEPT !.attempts =
                                Append(@, [scheme |-> "Basic",
                                           status |-> resp.status,
                                           ok |-> resp.status = 200 /\ d.result])]
             IN  /\ net' = Remember(key, resp)
                 /\ calls' = Issued(dl.i, {"gh_download"})
                 /\ IF resp.status = 200 /\ d.result
                    THEN /\ files' = d.files
                         /\ wrote' = d.wrote
                         /\ gh' = tried_now
                         /\ GithubReturn(TRUE, d.wrote)
                    ELSE /\ UNCHANGED <<files, wrote>>
                         /\ IF MovesOn(resp.status) /\ gh.n < Len(usernames)
                            THEN /\ gh' = [tried_now EXCEPT !.n = gh.n + 1]
                                 /\ UNCHANGED <<pc, dl, ret>>
                            ELSE /\ gh' = tried_now
                                 /\ GithubReturn(FALSE, NoWrite)
    /\ UNCHANGED <<entry, arg, inputs, run, stable, success, ms, app, invoked,
                   tried, prev>>

(***************************************************************************)
(* Specification: one call of download_symbols or download_from_linc_github*)
(***************************************************************************)
Next ==
    \/ Start
    \/ PlatformSkip
    \/ PlatformSetup
    \/ PlatformPackage
    \/ DepNext
    \/ AppSourceTry
    \/ GithubStart
    \/ GithubApi
    \/ GithubNuget
    \/ GithubBasic
    \/ Summary

Spec == Init /\ [][Next]_vars

(***************************************************************************)
(* Specification: the script run again on the directory it left behind,    *)
(* against feeds that answer a repeated request as they did before         *)
(***************************************************************************)
InitRerun ==
    /\ stable = TRUE
    /\ files \in InitialDirs
    /\ \E d \in DepLists, c \in Settings :
         inputs = [bc_version |-> c.bc_version, dependencies |-> d,
                   linc_token |-> c.linc_token, self_token |-> c.linc_token,
                   env_token |-> c.env_token,
                   github_username |-> c.github_username]
    /\ InitRun("download_symbols", "start")

\* main() once more (lines 1108-1115): a new SymbolDownloader on the same
\* directory and download_symbols with the same arguments
Rerun ==
    /\ pc = "done"
    /\ entry = "download_symbols"
    /\ run < MaxRuns
    /\ run' = run + 1
    /\ prev' = [files |-> files, outcome |-> dl.outcome,
                artifact |-> dl.artifact]
    /\ pc' = "start"
    /\ ret' = FALSE
    /\ success' = TRUE
    /\ ms' = MsIdle
    /\ dl' = DlStart(deps)
    /\ app' = AppIdle
    /\ gh' = GhIdle
    /\ calls' = {}
    /\ invoked' = {}
    /\ tried' = <<>>
    /\ wrote' = NoWrite
    /\ UNCHANGED <<entry, arg, inputs, files, stable, net>>

NextRerun ==
    \/ Start
    \/ PlatformSkip
    \/ PlatformSetup
    \/ PlatformPackage
    \/ DepNext
    \/ AppSourceTry
    \/ GithubStart
    \/ GithubApi
    \/ GithubNuget
    \/ GithubBasic
    \/ Summary
    \/ Rerun

SpecRerun == InitRerun /\ [][NextRerun]_vars

(***************************************************************************)
(* Specification: the query candidates of download_from_appsource_feed     *)
(***************************************************************************)
MaxText == 3
MaxPackages == 3

RECURSIVE Texts(_, _)
Texts(S, n) ==
    IF n = 0 THEN {<<>>}
    ELSE Texts(S, n - 1)
         \cup {Append(s, x) : s \in {t \in Texts(S, n - 1) : Len(t) = n - 1},
                              x \in S}

P_LincPty ==
    <<"L","i","n","c"," ","C","o","m","m","u","n","i","c","a","t","i","o","n","s",
      " ","(","P","t","y",")"," ","L","t","d">>
N_Test == <<"T","e","s","t"," ","E","x","t","e","n","s","i","o","n">>
N_Under == <<"m","y","_","e","x","t">>
ID_abc == <<"a","b","c","1","2","3">>

\* publisher and name are not empty where the candidates are built (line 467)
PublisherPool ==
    (Texts({"a", "B", "_", " "}, MaxText) \ {<<>>}) \cup {P_Linc, P_Acme, P_LincPty}
NamePool == {N_App, N_Ext, N_Test, N_Under}
IdPool == {<<>>, ID_x, ID_abc}

\* a call of one function on the argument arg
InitCall(e) ==
    /\ entry = e
    /\ pc = "call"
    /\ ret = <<>>
    /\ inputs = [bc_version |-> <<>>, dependencies |-> <<>>, linc_token |-> <<>>,
                 self_token |-> <<>>, env_token |-> <<>>,
                 github_username |-> <<>>]
    /\ files = <<>>
    /\ run = 1
    /\ stable = FALSE
    /\ net = <<>>
    /\ success = TRUE
    /\ ms = MsIdle
    /\ dl = DlStart(<<>>)
    /\ app = AppIdle
    /\ gh = GhIdle
    /\ calls = {}
    /\ invoked = {}
    /\ tried = <<>>
    /\ wrote = NoWrite
    /\ prev = NoPrev

InitPatterns ==
    /\ arg \in [publisher : PublisherPool, name : NamePool, id : IdPool]
    /\ InitCall("search_patterns")

\* lines 463-500 of download_from_appsource_feed
CallSearchPatterns ==
    /\ pc = "call"
    /\ entry = "search_patterns"
    /\ ret' = SearchPatterns(arg.publisher, arg.name, arg.id)
    /\ pc' = "returned"
    /\ UNCHANGED <<entry, arg, inputs, files, run, stable, net, success, ms, dl,
                   app, gh, calls, invoked, tried, wrote, prev>>

NextPatterns == CallSearchPatterns

SpecPatterns == InitPatterns /\ [][NextPatterns]_vars

(***************************************************************************)
(* Specification: the core packages requested for a target version         *)
(***************************************************************************)
\* the bc_version strings: 'bc' and two digits in either case, the cloud
\* build type, and strings of other shapes
VersionPool ==
    { <<b, c, d1, d2>> : b \in {"b", "B"}, c \in {"c"}, d1 \in Digits, d2 \in Digits }
    \cup { BC_Cloud, <<>>, <<"b","c","1">>, <<"b","c","2","4","0">>,
           <<"l","a","t","e","s","t">>, <<"b","c","2","x">> }

InitPackages ==
    /\ arg \in VersionPool
    /\ InitCall("symbol_packages")

\* lines 70 and 107 of download_microsoft_symbols_simple and
\* download_symbols_via_nuget: the package list of the platform phase
CallSymbolPackages ==
    /\ pc = "call"
    /\ entry = "symbol_packages"
    /\ ret' = get_microsoft_symbol_packages_alget_style(get_bc_version_info(arg))
    /\ pc' = "returned"
    /\ UNCHANGED <<entry, arg, inputs, files, run, stable, net, success, ms, dl,
                   app, gh, calls, invoked, tried, wrote, prev>>

NextPackages == CallSymbolPackages

SpecPackages == InitPackages /\ [][NextPackages]_vars

(***************************************************************************)
(* Specification: the entry of a search response that is downloaded        *)
(***************************************************************************)
PatternPool == {STR_application_symbols, P_Acme \o STR_dot \o N_App}

\* entries of search_data['data']: ids that hold a pattern in another case,
\* ids that hold none, an entry without 'id'
PackagePool ==
    { Pkg(ID_Other),
      Pkg(Upper(STR_application_symbols)),
      Pkg(<<"x",".">> \o Lower(P_Acme \o STR_dot \o N_App) \o <<".","1">>),
      Pkg(NoKey) }

InitSelect ==
    /\ arg \in [pattern : PatternPool,
                packages : SeqsUpTo(PackagePool, MaxPackages)]
    /\ InitCall("select_package")

\* lines 300-321 of download_microsoft_symbol_package, on a search that
\* answered and a package that can be downloaded
CallSelect ==
    /\ pc = "call"
    /\ entry = "select_package"
    /\ \E r \in {FeedAnswer("ok", "ok", arg.packages, "ok",
                            [status |-> "ok",
                             entries |-> <<[name |-> E_System,
                                            content |-> BigContent]>>])} :
         ret' = [selected |-> SelectPackage(arg.pattern, arg.packages),
                 result |-> download_microsoft_symbol_package(arg.pattern, r,
                                                              files).result]
    /\ pc' = "returned"
    /\ UNCHANGED <<entry, arg, inputs, files, run, stable, net, success, ms, dl,
                   app, gh, calls, invoked, tried, wrote, prev>>

NextSelect == CallSelect

SpecSelect == InitSelect /\ [][NextSelect]_vars

(***************************************************************************)
(* scripts/build_extension.py, class ALBuilder: detect_bc_version          *)
(***************************************************************************)
STR_auto == <<"a","u","t","o">>
STR_bccloud == <<"b","c","c","l","o","u","d">>

\* s.split(sep)[0] for a single character sep
SplitFirst(s, sep) ==
    IF \E n \in 1..Len(s) : s[n] = sep
    THEN SubSeq(s, 1, (CHOOSE n \in 1..Len(s) :
                          s[n] = sep /\ \A m \in 1..(n - 1) : s[m] # sep) - 1)
    ELSE s

\* the keys of version_map (lines 60-64)
VersionKeys ==
    { <<"1","7">>, <<"1","8">>, <<"1","9">>, <<"2","0">>, <<"2","1">>,
      <<"2","2">>, <<"2","3">>, <<"2","4">>, <<"2","5">>, <<"2","6">> }

\* the versions of the parametrized unit test only
detect_bc_version_upto24(app_data, build_type) ==
    IF build_type # STR_auto THEN build_type
    ELSE LET application == Get(app_data, "application", <<>>)
             bc_major_version == IF application # <<>>
                                 THEN SplitFirst(application, ".") ELSE <<>>
         IN  IF bc_major_version \in VersionKeys \ {<<"2","5">>, <<"2","6">>}
             THEN STR_bc \o bc_major_version
             ELSE STR_bccloud

\* detect_bc_version (lines 52-66)
detect_bc_version(app_data, build_type) ==
    IF build_type # STR_auto THEN build_type
    ELSE LET application == Get(app_data, "application", <<>>)
             bc_major_version == IF application # <<>>
                                 THEN SplitFirst(application, ".") ELSE <<>>
         IN  IF bc_major_version \in VersionKeys
             THEN STR_bc \o bc_major_version
             ELSE STR_bccloud

\* the 'application' of a manifest: two digits alone or followed by minor
\* components, other shapes, the empty string, and no such key
ApplicationPool ==
    { <<d1, d2>> \o rest : d1 \in Digits, d2 \in Digits,
                           rest \in { <<>>, <<".","0">>, <<".","0",".","0",".","0">> } }
    \cup { <<>>, NoKey, <<"2">>, <<"0","2","2",".","0">>, <<".","2","2">>,
           <<"2","2","x",".","0">>, <<"2","2","0",".","0">> }

BuildTypePool ==
    { STR_auto, <<"A","u","t","o">>, <<>>, STR_bccloud, <<"b","c","1","9">>,
      <<"b","c","9","9">> }

InitDetect ==
    /\ arg \in [app_data : [application : ApplicationPool],
                build_type : BuildTypePool]
    /\ InitCall("detect_bc_version")

CallDetect ==
    /\ pc = "call"
    /\ entry = "detect_bc_version"
    /\ ret' = detect_bc_version(arg.app_data, arg.build_type)
    /\ pc' = "returned"
    /\ UNCHANGED <<entry, arg, inputs, files, run, stable, net, success, ms, dl,
                   app, gh, calls, invoked, tried, wrote, prev>>

NextDetect == CallDetect

SpecDetect == InitDetect /\ [][NextDetect]_vars

(***************************************************************************)
(* scripts/analyze_project.py, class ALProjectAnalyzer: analyze_id_ranges  *)
(***************************************************************************)
AppSourceFrom == 100000
PTEFrom == 50000
CustomFrom == 1

\* d.get(key, default) for a dictionary given as a record
Lookup(d, key, default) == IF key \in DOMAIN d THEN d[key] ELSE default

\* lines 57-63: the analysis before the loop
NoRanges(id_ranges) ==
    [isAppSource |-> FALSE, isPTE |-> FALSE, isInternal |-> FALSE,
     hasCustomRange |-> FALSE, ranges |-> id_ranges]

\* a range that starts at 100000 is not an AppSource range
ClassifyAbove(analysis, id_range) ==
    LET range_from == Lookup(id_range, "from", 0)
    IN  IF range_from > AppSourceFrom THEN [analysis EXCEPT !.isAppSource = TRUE]
        ELSE IF range_from >= PTEFrom THEN [analysis EXCEPT !.isPTE = TRUE]
        ELSE IF range_from >= CustomFrom
             THEN [analysis EXCEPT !.hasCustomRange = TRUE]
        ELSE [analysis EXCEPT !.isInternal = TRUE]

\* lines 66-76: one round of the loop
Classify(analysis, id_range) ==
    LET range_from == Lookup(id_range, "from", 0)
    IN  IF range_from >= AppSourceFrom THEN [analysis EXCEPT !.isAppSource = TRUE]
        ELSE IF range_from >= PTEFrom THEN [analysis EXCEPT !.isPTE = TRUE]
        ELSE IF range_from >= CustomFrom
             THEN [analysis EXCEPT !.hasCustomRange = TRUE]
        ELSE [analysis EXCEPT !.isInternal = TRUE]

\* lines 65-78: the loop over id_ranges
RECURSIVE ClassifyAll(_, _)
ClassifyAll(analysis, id_ranges) ==
    IF id_ranges = <<>> THEN analysis
    ELSE ClassifyAll(Classify(analysis, Head(id_ranges)), Tail(id_ranges))

\* analyze_id_ranges (lines 53-78)
analyze_id_ranges(app_data) ==
    LET id_ranges == Lookup(app_data, "idRanges", <<>>)
    IN  ClassifyAll(NoRanges(id_ranges), id_ranges)

MaxRanges == 3

\* the 'from' values at and next to the limits of the classes
FromPool == { -1, 0, CustomFrom, PTEFrom - 1, PTEFrom, AppSourceFrom - 1,
              AppSourceFrom, AppSourceFrom + 1 }

\* the ranges of a manifest: with 'from' and 'to', and without 'from'
RangePool ==
    { [from |-> f, to |-> f + 99] : f \in FromPool } \cup { [to |-> 99] }

\* manifests with idRanges and the manifest without the key
ManifestPool ==
    { [idRanges |-> r] : r \in SeqsUpTo(RangePool, MaxRanges) }
    \cup { [name |-> N_App] }

InitRanges ==
    /\ arg \in ManifestPool
    /\ InitCall("analyze_id_ranges")

CallRanges ==
    /\ pc = "call"
    /\ entry = "analyze_id_ranges"
    /\ ret' = analyze_id_ranges(arg)
    /\ pc' = "returned"
    /\ UNCHANGED <<entry, arg, inputs, files, run, stable, net, success, ms, dl,
                   app, gh, calls, invoked, tried, wrote, prev>>

NextRanges == CallRanges

SpecRanges == InitRanges /\ [][NextRanges]_vars

(***************************************************************************)
(* scripts/build_extension.py: handle_version_specific_app_json            *)
(***************************************************************************)
\* the value None
None == "None"
\* the call ended with an exception
Raised == "raised"

\* version_files.get(bc_version) (lines 70-78)
version_files(bc_version) ==
    CASE bc_version = "bc17" -> "bc17_app.json"
      [] bc_version = "bc18" -> "bc18_app.json"
      [] bc_version = "bc19" -> "bc19_app.json"
      [] bc_version = "bc22" -> "bc22_app.json"
      [] bc_version = "bccloud" -> "cloud_app.json"
      [] OTHER -> None

\* shutil.copy2(src, dst) on a directory in which src exists
Copy2(fs, src, dst) == WriteBytes(fs, dst, fs[src])

\* the manifest is switched without a backup
handle_version_specific_app_json_nobackup(fs, bc_version) ==
    LET version_file == version_files(bc_version)
    IN  IF version_file = None THEN [result |-> None, files |-> fs]
        ELSE IF version_file \in DOMAIN fs
        THEN IF "app.json" \notin DOMAIN fs
             THEN [result |-> Raised, files |-> fs]
             ELSE [result |-> version_file,
                   files |-> Copy2(fs, version_file, "app.json")]
        ELSE [result |-> None, files |-> fs]

\* handle_version_specific_app_json (lines 68-94): [result, files]; copying
\* an app.json that does not exist raises before anything is written
handle_version_specific_app_json(fs, bc_version) ==
    LET version_file == version_files(bc_version)
    IN  IF version_file = None THEN [result |-> None, files |-> fs]
        ELSE IF version_file \in DOMAIN fs
        THEN IF "app.json" \notin DOMAIN fs
             THEN [result |-> Raised, files |-> fs]
             ELSE [result |-> version_file,
                   files |-> Copy2(Copy2(fs, "app.json", "app.json.backup"),
                                   version_file, "app.json")]
        ELSE [result |-> None, files |-> fs]

\* working directories: app.json or none, a backup left by an earlier run or
\* none, and any of four manifests, one of them (bc23_app.json) not mapped
ManifestNames == {"bc17_app.json", "bc22_app.json", "cloud_app.json", "bc23_app.json"}
WorkingDirs ==
    { [n \in present |-> IF n = "app.json" THEN a
                          ELSE IF n = "app.json.backup" THEN "left over"
                          ELSE n] :
        present \in SUBSET ({"app.json", "app.json.backup"} \cup ManifestNames),
        a \in {"original", "edited"} }

BcVersionPool == {"bc17", "bc20", "bc22", "bc23", "bccloud", "BC22"}

InitManifest ==
    /\ files \in WorkingDirs
    /\ arg \in [bc_version : BcVersionPool, files : {files}]
    /\ entry = "handle_version_specific_app_json"
    /\ pc = "call"
    /\ ret = None
    /\ inputs = <<>>
    /\ run = 1
    /\ stable = FALSE
    /\ net = <<>>
    /\ success = TRUE
    /\ ms = MsIdle
    /\ dl = DlStart(<<>>)
    /\ app = AppIdle
    /\ gh = GhIdle
    /\ calls = {}
    /\ invoked = {}
    /\ tried = <<>>
    /\ wrote = NoWrite
    /\ prev = NoPrev

CallHandleVersion ==
    /\ pc = "call"
    /\ entry = "handle_version_specific_app_json"
    /\ \E d \in {handle_version_specific_app_json(files, arg.bc_version)} :
         /\ files' = d.files
         /\ ret' = d.result
    /\ pc' = "returned"
    /\ UNCHANGED <<entry, arg, inputs, run, stable, net, success, ms, dl, app, gh,
                   calls, invoked, tried, wrote, prev>>

NextManifest == CallHandleVersion

SpecManifest == InitManifest /\ [][NextManifest]_vars

(***************************************************************************)
(* scripts/build_extension.py: build                                       *)
(***************************************************************************)
\* the content of a manifest file: whether it parses and has 'name' and
\* 'platform', and its 'version'
Manifest(text, kind, version) == [text |-> text, kind |-> kind, version |-> version]

\* generate_build_version (lines 105-131): the fixed version of a test
\* compilation, or a version computed from the platform and the clock
BuildVersions(mode) ==
    IF mode = "test" THEN {"0.0.0.0"} ELSE {"22.26.2496.930", "22.26.2497.0"}

\* update_app_json_version (lines 133-150): the backup is made only when
\* there is none, then app.json is written with the build version
update_app_json_version(fs, build_version) ==
    LET backed == IF "app.json.backup" \notin DOMAIN fs
                  THEN Copy2(fs, "app.json", "app.json.backup") ELSE fs
    IN  WriteBytes(backed, "app.json",
                   [fs["app.json"] EXCEPT !.version = build_version])

\* restore_app_json (lines 256-262)
restore_app_json(fs) ==
    IF "app.json.backup" \in DOMAIN fs
    THEN LET restored == Copy2(fs, "app.json.backup", "app.json")
         IN  [n \in (DOMAIN restored) \ {"app.json.backup"} |-> restored[n]]
    ELSE fs

\* what the compiler run may do (lines 152-254): no compiler found, exit
\* status 0 with or without the output file, another exit status, or the
\* run itself fails
CompileOutcomes == {"no compiler", "ok", "ok no output", "failed", "error"}

\* the working directories of a build: app.json that is valid, lacks
\* 'platform', is not JSON, or is absent; no backup, a backup with other
\* content, or one with the content of app.json; errorLog.json or none
BuildDirs ==
    { [n \in present |-> IF n = "app.json" THEN a
                          ELSE IF n = "app.json.backup" THEN b
                          ELSE "log"] :
        present \in SUBSET {"app.json", "app.json.backup", "errorLog.json"},
        a \in { Manifest("original", k, "1.0.0.0") :
                  k \in {"valid", "no platform", "malformed"} },
        b \in { Manifest("left over", "valid", "0.9.0.0"),
                Manifest("original", "valid", "1.0.0.0") } }

InitBuild ==
    /\ files \in BuildDirs
    /\ arg \in [mode : {"build", "test"}, files : {files}]
    /\ entry = "build"
    /\ pc = "call"
    /\ ret = None
    /\ inputs = <<>>
    /\ run = 1
    /\ stable = FALSE
    /\ net = <<>>
    /\ success = FALSE
    /\ ms = MsIdle
    /\ dl = DlStart(<<>>)
    /\ app = AppIdle
    /\ gh = GhIdle
    /\ calls = {}
    /\ invoked = {}
    /\ tried = <<>>
    /\ wrote = NoWrite
    /\ prev = NoPrev

\* lines 285-288: load_app_json exits when app.json is missing and raises
\* when it is not JSON; app_data["platform"] raises when the key is missing
BuildLoad ==
    /\ entry = "build"
    /\ pc = "call"
    /\ IF "app.json" \in DOMAIN files /\ files["app.json"].kind = "valid"
       THEN /\ pc' = "update"
            /\ ret' = ret
       ELSE /\ pc' = "restore"
            /\ ret' = Raised
    /\ UNCHANGED <<entry, arg, inputs, files, run, stable, net, success, ms, dl,
                   app, gh, calls, invoked, tried, wrote, prev>>

\* lines 292-296: generate_build_version and update_app_json_version
BuildUpdate ==
    /\ entry = "build"
    /\ pc = "update"
    /\ \E build_version \in BuildVersions(arg.mode) :
         files' = update_app_json_version(files, build_version)
    /\ pc' = "compile"
    /\ UNCHANGED <<entry, arg, ret, inputs, run, stable, net, success, ms, dl,
                   app, gh, calls, invoked, tried, wrote, prev>>

\* lines 298-323: compile_extension and the result of build; the compiler
\* removes the previous error log and may write the output file
BuildCompile ==
    /\ entry = "build"
    /\ pc = "compile"
    /\ \E outcome \in CompileOutcomes :
         LET cleaned == IF outcome = "no compiler" THEN files
                        ELSE [n \in (DOMAIN files) \ {"errorLog.json"} |-> files[n]]
         IN  /\ files' = CASE outcome = "ok" -> WriteBytes(cleaned, "output.app", "NAVX")
                           [] outcome = "failed" -> WriteBytes(cleaned, "errorLog.json", "log")
                           [] OTHER -> cleaned
             /\ success' = (outcome = "ok")
             /\ ret' = (outcome = "ok")
    /\ pc' = "restore"
    /\ UNCHANGED <<entry, arg, inputs, run, stable, net, ms, dl, app, gh, calls,
                   invoked, tried, wrote, prev>>

\* lines 325-327: the finally clause, after which build returns or raises
BuildRestore ==
    /\ entry = "build"
    /\ pc = "restore"
    /\ files' = restore_app_json(files)
    /\ pc' = "returned"
    /\ UNCHANGED <<entry, arg, ret, inputs, run, stable, net, success, ms, dl,
                   app, gh, calls, invoked, tried, wrote, prev>>

NextBuild == BuildLoad \/ BuildUpdate \/ BuildCompile \/ BuildRestore

SpecBuild == InitBuild /\ [][NextBuild]_vars

(***************************************************************************)
(* scripts/al_builder.py, class ALBuildOrchestrator: full_build_pipeline   *)
(***************************************************************************)
\* the arguments of full_build_pipeline (lines 132-134)
PipelineArgs ==
    [mode : {"build", "test"}, build_type : {"auto", "bc22", "bccloud"},
     include_symbols : BOOLEAN, include_signing : BOOLEAN,
     include_appsource : BOOLEAN]

\* the methods of ALCompilerInstaller (install_al_compiler.py, lines 36, 62):
\* the parameters each one takes besides self; a method that is not defined
\* has no entry
InstallerMethods ==
    [check_dotnet |-> 0, install_al_compiler |-> 0, _update_al_compiler |-> 0,
     verify_installation |-> 0]

\* a call installer.method(args...): answered by the method, or ended by an
\* AttributeError when the class has no such method and by a TypeError when
\* it is given more arguments than the method takes
CallInstaller(method, nargs) ==
    IF method \notin DOMAIN InstallerMethods THEN "AttributeError"
    ELSE IF nargs > InstallerMethods[method] THEN "TypeError"
    ELSE "answered"

InitPipeline ==
    /\ arg \in PipelineArgs
    /\ InitCall("full_build_pipeline")

\* lines 136-140 and 44-50: setup_environment starts with check_dotnet
PipelineCheckDotnet ==
    /\ entry = "full_build_pipeline"
    /\ pc = "call"
    /\ \E found \in BOOLEAN :
         tried' = Append(tried, [step |-> "setup", call |-> "check_dotnet",
                                 result |-> IF found THEN "True" ELSE "False"])
    /\ pc' = "setup"
    /\ UNCHANGED <<entry, arg, ret, inputs, files, run, stable, net, success, ms,
                   dl, app, gh, calls, invoked, wrote, prev>>

\* lines 50-61: install_dotnet() when .NET was not found, otherwise
\* install_al_compiler(url); an exception of either call leaves
\* setup_environment and is caught at line 222, where the pipeline returns
\* False
PipelineSetup ==
    /\ entry = "full_build_pipeline"
    /\ pc = "setup"
    /\ LET found == tried[Len(tried)].result = "True"
           method == IF found THEN "install_al_compiler" ELSE "install_dotnet"
           nargs == IF found THEN 1 ELSE 0
           outcome == CallInstaller(method, nargs)
       IN  /\ tried' = Append(tried, [step |-> "setup", call |-> method,
                                      result |-> outcome])
           /\ outcome \in {"AttributeError", "TypeError"}
           /\ ret' = FALSE
           /\ pc' = "returned"
    /\ UNCHANGED <<entry, arg, inputs, files, run, stable, net, success, ms, dl,
                   app, gh, calls, invoked, wrote, prev>>

NextPipeline == PipelineCheckDotnet \/ PipelineSetup

SpecPipeline == InitPipeline /\ [][NextPipeline]_vars

(***************************************************************************)
(* scripts/code_sign.py, class CodeSigner                                  *)
(***************************************************************************)
\* file contents are sequences of bytes; the 4 bytes of line 65
NAVX == <<"N", "A", "V", "X">>

AppFile == "My.app"

\* line 263: output_path = app_file_path + ".signed"
SignedPath(app_file_path) == app_file_path \o ".signed"

\* what a signing tool makes of a file: the content with a signature block
SignedContent(content) == content \o <<"s", "i", "g">>

RemoveFile(fs, name) == [n \in (DOMAIN fs) \ {name} |-> fs[n]]

\* lines 60-67: the first 4 bytes of the file are 'NAVX'; a file that cannot
\* be read is no AL extension
is_al_extension(fs, file_path) ==
    /\ file_path \in DOMAIN fs
    /\ Len(fs[file_path]) >= Len(NAVX)
    /\ SubSeq(fs[file_path], 1, Len(NAVX)) = NAVX

check_platform_compatibility_any(fs, file_path, is_windows, force) == TRUE

\* lines 69-86
check_platform_compatibility(fs, file_path, is_windows, force) ==
    IF is_al_extension(fs, file_path) /\ ~is_windows THEN force ELSE TRUE

\* what a run of a signing tool can do (subprocess.run, lines 243, 287): it
\* cannot be started (ran = FALSE, an exception), or it ends with a return
\* code, having written its output or not
ToolOutcomes ==
    {[ran |-> TRUE, returncode |-> c, output |-> o] : c \in {0, 1}, o \in BOOLEAN}
      \cup {[ran |-> FALSE, returncode |-> 1, output |-> FALSE]}

NoOutcome == [ran |-> FALSE, returncode |-> 0, output |-> FALSE]

\* lines 208-256: signtool signs the file in place; the mock of
\* mock_signtool.py only reads it
sign_with_signtool(fs, app_file_path, signing_tool, o) ==
    IF o.ran /\ o.returncode = 0
    THEN [result |-> TRUE,
          files |-> IF o.output /\ signing_tool # "mock_signtool.py"
                    THEN WriteBytes(fs, app_file_path, SignedContent(fs[app_file_path]))
                    ELSE fs]
    ELSE [result |-> FALSE, files |-> fs]

sign_with_osslsigncode_unchecked(fs, app_file_path, o) ==
    LET output_path == SignedPath(app_file_path)
        after == IF o.ran /\ o.output
                 THEN WriteBytes(fs, output_path, SignedContent(fs[app_file_path]))
                 ELSE fs
    IN  IF output_path \in DOMAIN after
        THEN [result |-> TRUE,
              files |-> WriteBytes(RemoveFile(after, output_path), app_file_path,
                                   after[output_path])]
        ELSE [result |-> FALSE, files |-> after]

\* lines 258-305: the tool writes to app_file_path + ".signed"; on return
\* code 0 the output replaces the file (os.replace, line 291; without an
\* output it raises and line 299 catches it); in every other case the output
\* file is removed when it exists
sign_with_osslsigncode(fs, app_file_path, o) ==
    LET output_path == SignedPath(app_file_path)
        after == IF o.ran /\ o.output
                 THEN WriteBytes(fs, output_path, SignedContent(fs[app_file_path]))
                 ELSE fs
    IN  IF o.ran /\ o.returncode = 0 /\ output_path \in DOMAIN after
        THEN [result |-> TRUE,
              files |-> WriteBytes(RemoveFile(after, output_path), app_file_path,
                                   after[output_path])]
        ELSE [result |-> FALSE, files |-> RemoveFile(after, output_path)]

\* "signtool" in signing_tool.lower() (line 402) for the tools of lines
\* 102-128 and 371
IsSigntool(signing_tool) == signing_tool \in {"signtool.exe", "mock_signtool.py"}

\* the working directories sign_app_file starts in: without the file, with
\* an AL extension, with another file, with a file shorter than 4 bytes, and
\* with an output file left by an earlier run
SignDirs ==
    { <<>>,
      [n \in {AppFile} |-> NAVX \o <<"d">>],
      [n \in {AppFile} |-> <<"M", "Z", "d", "d", "d">>],
      [n \in {AppFile} |-> <<"N", "A", "V">>],
      [n \in {AppFile, SignedPath(AppFile)} |->
          IF n = AppFile THEN NAVX \o <<"d">> ELSE <<"o", "l", "d">>] }

\* the arguments of sign_app_file (lines 335-339); vault stands for
\* all([vault_url, cert_name, client_id, client_secret, tenant_id])
SignArgs(fs) ==
    [app_file_path : {"", AppFile}, cert_base64 : {None, "cert"},
     cert_password : {None, "", "pw"}, use_keyvault : BOOLEAN, vault : BOOLEAN,
     force : BOOLEAN, test_mode : BOOLEAN, files : {fs}]

NoTool == [signing_tool |-> None, cert_password |-> None, outcome |-> NoOutcome]

InitSign ==
    /\ files \in SignDirs
    /\ arg \in SignArgs(files)
    /\ inputs \in [is_windows : BOOLEAN]
    /\ entry = "sign_app_file"
    /\ pc = "call"
    /\ ret = None
    /\ run = 1
    /\ stable = FALSE
    /\ net = NoTool
    /\ success = FALSE
    /\ ms = MsIdle
    /\ dl = DlStart(<<>>)
    /\ app = AppIdle
    /\ gh = GhIdle
    /\ calls = {}
    /\ invoked = {}
    /\ tried = <<>>
    /\ wrote = NoWrite
    /\ prev = NoPrev

\* lines 343-353: the file must exist; outside test mode the platform must be
\* able to sign it
SignValidate ==
    /\ entry = "sign_app_file"
    /\ pc = "call"
    /\ IF arg.app_file_path = "" \/ arg.app_file_path \notin DOMAIN files
       THEN /\ ret' = FALSE
            /\ pc' = "returned"
            /\ tried' = tried
       ELSE IF arg.test_mode
       THEN /\ pc' = "params"
            /\ UNCHANGED <<ret, tried>>
       ELSE /\ tried' = Append(tried, "check_platform_compatibility")
            /\ IF check_platform_compatibility(files, arg.app_file_path,
                                               inputs.is_windows, arg.force)
               THEN pc' = "params" /\ ret' = ret
               ELSE pc' = "returned" /\ ret' = FALSE
    /\ UNCHANGED <<entry, arg, inputs, files, run, stable, net, success, ms, dl,
                   app, gh, calls, invoked, wrote, prev>>

\* lines 355-366: the certificate parameters must be given
SignParams ==
    /\ entry = "sign_app_file"
    /\ pc = "params"
    /\ LET given == IF arg.use_keyvault THEN arg.vault
                    ELSE arg.cert_base64 # None /\ arg.cert_password # None
       IN  IF given THEN pc' = "tool" /\ ret' = ret
           ELSE pc' = "returned" /\ ret' = FALSE
    /\ UNCHANGED <<entry, arg, inputs, files, run, stable, net, success, ms, dl,
                   app, gh, calls, invoked, tried, wrote, prev>>

\* lines 368-383: the mock of the scripts directory in test mode, otherwise
\* check_signing_tools (lines 102-128)
SignTool ==
    /\ entry = "sign_app_file"
    /\ pc = "tool"
    /\ \E found \in IF arg.test_mode THEN {None, "mock_signtool.py"}
                    ELSE {None, "signtool.exe", "osslsigncode"} :
         /\ net' = [net EXCEPT !.signing_tool = found]
         /\ IF found = None THEN pc' = "returned" /\ ret' = FALSE
            ELSE pc' = "certificate" /\ ret' = ret
    /\ tried' = IF arg.test_mode THEN tried ELSE Append(tried, "check_signing_tools")
    /\ UNCHANGED <<entry, arg, inputs, files, run, stable, success, ms, dl, app,
                   gh, calls, invoked, wrote, prev>>

\* lines 387-396: the certificate comes from the key vault (lines 130-180,
\* with an empty password) or is decoded (lines 182-206)
SignCertificate ==
    /\ entry = "sign_app_file"
    /\ pc = "certificate"
    /\ tried' = Append(tried, IF arg.use_keyvault THEN "get_certificate_from_keyvault"
                              ELSE "decode_certificate")
    /\ \E ok \in BOOLEAN :
         IF ok
         THEN /\ net' = [net EXCEPT !.cert_password =
                            IF arg.use_keyvault THEN "" ELSE arg.cert_password]
              /\ pc' = "sign"
              /\ ret' = ret
         ELSE /\ net' = net
              /\ pc' = "returned"
              /\ ret' = FALSE
    /\ UNCHANGED <<entry, arg, inputs, files, run, stable, success, ms, dl, app,
                   gh, calls, invoked, wrote, prev>>

\* lines 402-404 and 412-421
SignWithSigntool ==
    /\ entry = "sign_app_file"
    /\ pc = "sign"
    /\ arg.test_mode \/ IsSigntool(net.signing_tool)
    /\ \E o \in ToolOutcomes :
         LET r == sign_with_signtool(files, arg.app_file_path, net.signing_tool, o)
         IN  /\ files' = r.files
             /\ ret' = r.result
             /\ success' = r.result
             /\ net' = [net EXCEPT !.outcome = o]
             /\ tried' = tried \o <<"sign_with_signtool">>
                         \o (IF r.result THEN <<"verify_signature">> ELSE <<>>)
    /\ pc' = "returned"
    /\ UNCHANGED <<entry, arg, inputs, run, stable, ms, dl, app, gh, calls,
                   invoked, wrote, prev>>

\* lines 405-407 and 412-421
SignWithOsslsigncode ==
    /\ entry = "sign_app_file"
    /\ pc = "sign"
    /\ ~(arg.test_mode \/ IsSigntool(net.signing_tool))
    /\ net.signing_tool = "osslsigncode"
    /\ \E o \in ToolOutcomes :
         LET r == sign_with_osslsigncode(files, arg.app_file_path, o)
         IN  /\ files' = r.files
             /\ ret' = r.result
             /\ success' = r.result
             /\ net' = [net EXCEPT !.outcome = o]
             /\ tried' = tried \o <<"sign_with_osslsigncode">>
                         \o (IF r.result THEN <<"verify_signature">> ELSE <<>>)
    /\ pc' = "returned"
    /\ UNCHANGED <<entry, arg, inputs, run, stable, ms, dl, app, gh, calls,
                   invoked, wrote, prev>>

NextSign ==
    \/ SignValidate
    \/ SignParams
    \/ SignTool
    \/ SignCertificate
    \/ SignWithSigntool
    \/ SignWithOsslsigncode

SpecSign == InitSign /\ [][NextSign]_vars

(***************************************************************************)
(* Properties                                                              *)
(***************************************************************************)
GithubPcs == {"gh_start", "gh_api", "gh_nuget", "gh_basic"}
GithubKinds == {"gh_list", "gh_versions", "gh_api", "gh_download"}
HasLinc(publisher) ==
    \E n \in 1..Len(publisher) - 3 :
      Lower(SubSeq(publisher, n, n + 3)) = <<"l","i","n","c">>
Counted == {"skipped", "appsource", "github"}

\* C1: in download_custom_dependencies a dependency whose publisher is
\* "Microsoft" never has the AppSource lookup or the GitHub fallback invoked
\* and no request is issued for it; once the loop has passed it, it is
\* recorded as skipped and the success count includes it.
C1_MicrosoftNeverLookedUp ==
    entry = "download_symbols" =>
      /\ \A i \in 1..Len(deps) :
           deps[i].publisher = <<"M","i","c","r","o","s","o","f","t">> =>
             /\ <<i, "appsource">> \notin invoked
             /\ <<i, "github">> \notin invoked
             /\ \A c \in calls : c.who # i
             /\ dl.i > i => dl.outcome[i] = "skipped"
             /\ dl.i = i => pc \notin GithubPcs \cup {"appsource"}
      /\ dl.count = Cardinality({i \in 1..Len(deps) : dl.outcome[i] \in Counted})

C1_Witness ==
    /\ entry = "download_symbols"
    /\ pc = "summary"
    /\ \E i, j \in 1..Len(deps) :
         /\ deps[i].publisher = STR_Microsoft
         /\ dl.outcome[i] = "skipped"
         /\ dl.outcome[j] = "failed"
         /\ dl.count = 1

\* C2: during a run the GitHub fallback is invoked for a dependency only
\* after the AppSource lookup of that dependency was attempted and failed,
\* and only if its publisher contains 'linc' in any case; a dependency
\* without 'linc' whose AppSource lookup failed is recorded as failed and no
\* registry request is issued for it.
C2_FallbackOnlyAfterFailure ==
    entry = "download_symbols" =>
      \A i \in 1..Len(deps) :
        /\ <<i, "github">> \in invoked =>
             /\ <<i, "appsource">> \in invoked
             /\ HasLinc(deps[i].publisher)
             /\ dl.i = i => pc \in GithubPcs /\ \A n \in 1..Len(tried) : ~tried[n].result
             /\ dl.i > i => dl.outcome[i] \in {"github", "failed"}
        /\ (dl.i = i /\ pc \in GithubPcs) => <<i, "github">> \in invoked
        /\ \A c \in calls : c.who = i /\ c.kind \in GithubKinds =>
                              <<i, "github">> \in invoked
        /\ (dl.i > i /\ ~HasLinc(deps[i].publisher)
            /\ <<i, "appsource">> \in invoked /\ dl.outcome[i] # "appsource") =>
             dl.outcome[i] = "failed"

C2_Witness ==
    /\ entry = "download_symbols"
    /\ pc = "summary"
    /\ \E i, j \in 1..Len(deps) :
         /\ <<i, "github">> \in invoked
         /\ dl.outcome[i] = "github"
         /\ ~HasLinc(deps[j].publisher)
         /\ <<j, "appsource">> \in invoked
         /\ dl.outcome[j] = "failed"

\* C3: download_from_linc_github called directly with a dependency whose
\* publisher does not contain 'linc' in any case returns False, issues no
\* request and writes nothing.
C3_NoLincNoRequest ==
    (entry = "download_from_linc_github"
     /\ ~HasLinc(Get(deps[1], "publisher", <<>>))) =>
      /\ calls = {}
      /\ wrote = NoWrite
      /\ pc \in {"gh_start", "returned"}
      /\ pc = "returned" => ret = FALSE

C3_Witness ==
    /\ entry = "download_from_linc_github"
    /\ pc = "returned"
    /\ deps[1].publisher = P_Acme
    /\ deps[1].name # <<>>
    /\ ret = FALSE

\* C4: download_from_appsource_feed queries its candidates in the order of
\* the list it built, each one only after every earlier one failed, none
\* after a success, and it gives up only after the last one failed.
C4_CandidatesInOrder ==
    (entry = "download_symbols" /\ tried # <<>>) =>
      LET i == IF pc = "deps" THEN dl.i - 1 ELSE dl.i
          patterns == SearchPatterns(deps[i].publisher, deps[i].name, deps[i].id)
      IN  /\ Len(tried) <= Len(patterns)
          /\ \A n \in 1..Len(tried) : tried[n].pattern = patterns[n]
          /\ \A n \in 1..Len(tried) - 1 : ~tried[n].result
          /\ pc = "appsource" =>
               /\ ~tried[Len(tried)].result
               /\ app.k = Len(tried) + 1
               /\ app.patterns = patterns
          /\ (pc # "appsource" /\ ~tried[Len(tried)].result) =>
               Len(tried) = Len(patterns)

C4_Witness ==
    /\ entry = "download_symbols"
    /\ pc = "deps"
    /\ Len(tried) = 3
    /\ ~tried[1].result
    /\ ~tried[2].result
    /\ tried[3].result
    /\ Len(SearchPatterns(deps[dl.i - 1].publisher, deps[dl.i - 1].name,
                          deps[dl.i - 1].id)) = 4

\* the alphanumeric word runs of a text, in order
RECURSIVE AlnumRuns(_, _)
AlnumRuns(text, cur) ==
    IF text = <<>>
    THEN IF cur = <<>> THEN <<>> ELSE <<cur>>
    ELSE IF Head(text) \in Alnums
         THEN AlnumRuns(Tail(text), Append(cur, Head(text)))
         ELSE (IF cur = <<>> THEN <<>> ELSE <<cur>>) \o AlnumRuns(Tail(text), <<>>)

\* Norm: each alphanumeric run with its first letter in upper case and the
\* rest in lower case, concatenated
Norm(text) ==
    Join([n \in 1..Len(AlnumRuns(text, <<>>)) |->
            Capitalize(AlnumRuns(text, <<>>)[n])])

\* C5: the first query candidate is Norm(publisher).Norm(name).symbols.id
\* when the identifier is not empty and Norm(publisher).Norm(name).symbols
\* when it is empty, Norm keeping the alphanumeric word runs only.
C5_FirstCandidate ==
    (entry = "search_patterns" /\ pc = "returned") =>
      ret[1] = Norm(arg.publisher) \o <<".">> \o Norm(arg.name)
               \o <<".","s","y","m","b","o","l","s">>
               \o (IF arg.id # <<>> THEN <<".">> \o arg.id ELSE <<>>)

\* C6: the list of query candidates holds no string twice, it holds exactly
\* the candidates of the priority list that are present, and they stand in
\* the order of their first occurrence in the priority list.
C6_NoDuplicateCandidates ==
    (entry = "search_patterns" /\ pc = "returned") =>
      LET raw == RawSearchPatterns(arg.publisher, arg.name, arg.id)
          first(x) == CHOOSE n \in 1..Len(raw) :
                        raw[n] = x /\ \A m \in 1..(n - 1) : raw[m] # x
      IN  /\ \A a, b \in 1..Len(ret) : ret[a] = ret[b] => a = b
          /\ {ret[n] : n \in 1..Len(ret)}
               = {raw[n] : n \in 1..Len(raw)} \ {<<>>}
          /\ \A a, b \in 1..Len(ret) : a < b => first(ret[a]) < first(ret[b])

C6_Witness ==
    /\ entry = "search_patterns"
    /\ pc = "returned"
    /\ arg.id # <<>>
    /\ Len(ret) = 3
    /\ \E a, b \in 1..4 :
         /\ a < b
         /\ RawSearchPatterns(arg.publisher, arg.name, arg.id)[a]
              = RawSearchPatterns(arg.publisher, arg.name, arg.id)[b]

\* does the id of a search entry hold the pattern, whatever the case
IdHolds(package, pattern) ==
    LET id == IF package.id = NoKey THEN <<>> ELSE package.id
    IN  \E n \in 1..(Len(id) - Len(pattern) + 1) :
          \A k \in 1..Len(pattern) :
            LowerChar(id[n + k - 1]) = LowerChar(pattern[k])

\* C7: of a search response the first entry whose id holds the candidate in
\* any case is selected; when no id holds it and the list is not empty the
\* first entry is selected; when the list is empty nothing is selected and
\* the candidate fails.
C7_SelectFirstMatch ==
    (entry = "select_package" /\ pc = "returned") =>
      LET matches == {n \in 1..Len(arg.packages) :
                        IdHolds(arg.packages[n], arg.pattern)}
      IN  /\ matches # {} =>
                /\ ret.selected \in matches
                /\ \A m \in matches : ret.selected <= m
                /\ ret.result
          /\ (matches = {} /\ arg.packages # <<>>) =>
                ret.selected = 1 /\ ret.result
          /\ arg.packages = <<>> => ret.selected = 0 /\ ~ret.result

C7_Witness ==
    /\ entry = "select_package"
    /\ pc = "returned"
    /\ Len(arg.packages) = 3
    /\ ret.selected = 3
    /\ IdHolds(arg.packages[3], arg.pattern)
    /\ arg.packages[3].id # arg.pattern

\* C8: an archive extraction (of a feed package or of a GitHub package)
\* never overwrites: a file that was in the directory under the name the
\* extraction writes to keeps its content.
C8_NeverOverwrites ==
    (wrote.by \in {"feed", "github"} /\ wrote.before # NoFile) =>
      files[wrote.name] = wrote.before

\* the dependency was resolved by the previous run into a file that is still
\* there and is larger than the threshold
Satisfied(i) ==
    /\ prev.outcome[i] \in {"appsource", "github"}
    /\ prev.artifact[i] \in DOMAIN prev.files
    /\ prev.files[prev.artifact[i]].size > SizeThreshold

\* C9: a second run of download_symbols with the same inputs on the
\* directory the first run left issues no request for a dependency that an
\* existing artifact above the threshold satisfies, and ends with the files
\* of the directory (names and contents) as they were.
C9_RerunIdempotent ==
    run >= 2 =>
      /\ \A c \in calls : c.who >= 1 => ~Satisfied(c.who)
      /\ pc = "done" => files = prev.files

\* C10: when the platform phase starts with an .app file larger than 1000
\* bytes in the directory, the phase ends at once, without feed setup,
\* search or download, reported successful; with no such file (files of
\* 1000 bytes or fewer only) the phase is not skipped and begins with the
\* feed setup.
C10_SkipWhenLargeApp ==
    [][pc = "platform" =>
         IF \E n \in DOMAIN files : /\ EndsWith(n, <<".","a","p","p">>)
                                    /\ files[n].size > SizeThreshold
         THEN /\ pc' = "deps"
              /\ ms'.skipped
              /\ calls' = {}
              /\ files' = files
              /\ success'
         ELSE /\ ~ms'.skipped
              /\ [who |-> 0, kind |-> "feed_setup"] \in calls']_vars

C10_Witness ==
    /\ entry = "download_symbols"
    /\ pc = "deps"
    /\ dl.i = 1
    /\ ms.skipped
    /\ success
    /\ calls = {}
    /\ check_existing_symbols(files) # {}

\* the schemes of the download requests sent so far, in order
Schemes == [n \in 1..Len(gh.attempts) |-> gh.attempts[n].scheme]

\* the last download request was answered 200 and its package was extracted
DownloadedBy(scheme) ==
    /\ gh.attempts # <<>>
    /\ gh.attempts[Len(gh.attempts)].scheme = scheme
    /\ gh.attempts[Len(gh.attempts)].status = 200
    /\ wrote.by = "github"

\* C11: when the download endpoint answers 200 to Basic auth only and the
\* resolver succeeds with Basic auth, the bearer header and then the legacy
\* token header were tried before, exactly once each and in that order, and
\* every Basic request came after them.
C11_AuthOrderFixed ==
    (/\ DownloadedBy("Basic")
     /\ \A n \in 1..Len(gh.attempts) :
          gh.attempts[n].scheme # "Basic" => gh.attempts[n].status # 200) =>
      /\ Cardinality({n \in 1..Len(Schemes) : Schemes[n] = "Bearer"}) = 1
      /\ Cardinality({n \in 1..Len(Schemes) : Schemes[n] = "token"}) = 1
      /\ Schemes[1] = "Bearer"
      /\ Schemes[2] = "token"
      /\ \A n, m \in 1..Len(Schemes) :
           (Schemes[n] = "Basic" /\ Schemes[m] # "Basic") => m < n

C11_Witness ==
    /\ DownloadedBy("Basic")
    /\ Schemes = <<"Bearer", "token", "X-NuGet-ApiKey", "Basic", "Basic">>
    /\ \A n \in 1..4 : gh.attempts[n].status \in {401, 404}
    /\ pc = "deps"
    /\ dl.outcome[dl.i - 1] = "github"

\* the scheme tried after scheme s was answered with an error
NextScheme(s) ==
    IF s = "Bearer" THEN "token"
    ELSE IF s = "token" THEN "X-NuGet-ApiKey"
    ELSE "Basic"

GithubEnded == pc \notin {"gh_api", "gh_nuget", "gh_basic"}

C13_PlaceholderWhenAllFail ==
    (/\ entry = "download_symbols"
     /\ pc = "deps"
     /\ gh.attempts # <<>>
     /\ \A n \in 1..Len(gh.attempts) : gh.attempts[n].status \notin {200, 401, 403}) =>
      /\ wrote.by = "placeholder"
      /\ wrote.name \in DOMAIN files
      /\ files[wrote.name] = wrote.content

\* the phase of download_symbols a position belongs to: 0 Init, 1
\* PlatformSymbolsFetching, 2 DependencyResolving, 3 Summarizing, 4 Done
Phase(p) ==
    CASE p = "start" -> 0
      [] p \in {"platform", "ms_packages"} -> 1
      [] p \in {"deps", "appsource", "gh_start", "gh_api", "gh_nuget", "gh_basic"} -> 2
      [] p = "summary" -> 3
      [] OTHER -> 4

\* C14: a run of download_symbols starts in Init and every step either stays
\* in its phase or enters the next one in the order Init,
\* PlatformSymbolsFetching, DependencyResolving, Summarizing, Done: no phase
\* is skipped and none is entered again.
C14_PhasesInOrder ==
    [][entry = "download_symbols" =>
         Phase(pc') \in {Phase(pc), Phase(pc) + 1}]_vars

\* a run without dependencies whose platform phase failed has reached Done
C14_Witness ==
    /\ entry = "download_symbols"
    /\ pc = "done"
    /\ deps = <<>>
    /\ ~ms.skipped
    /\ ~ret
    /\ GlobApp(files) # {}

\* the platform phase has just ended and nothing was downloaded in it: no
\* usable file was there beforehand (the phase was not skipped) and no
\* package download wrote a file
PlatformFailed ==
    /\ entry = "download_symbols"
    /\ pc = "deps"
    /\ dl.i = 1
    /\ dl.outcome = [n \in 1..Len(deps) |-> "pending"]
    /\ ~ms.skipped
    /\ wrote = NoWrite

\* C15: once the platform phase has ended with every platform download
\* failed and no usable file beforehand, the run returns failure, whatever
\* happens to the dependencies afterwards.
C15_PlatformFailureFatal ==
    [](PlatformFailed => [](pc = "done" => ~ret))

\* a run whose platform phase failed and in which a dependency was resolved
\* from the AppSource feed has returned failure
C15_Witness ==
    /\ entry = "download_symbols"
    /\ pc = "done"
    /\ ~ms.skipped
    /\ ~ret
    /\ \E i \in 1..Len(deps) : dl.outcome[i] = "appsource"
    /\ GlobApp(files) # {}

\* the platform phase has just ended with success: it was skipped because a
\* usable file was there, or a package download wrote a file
PlatformOk ==
    /\ entry = "download_symbols"
    /\ pc = "deps"
    /\ dl.i = 1
    /\ dl.outcome = [n \in 1..Len(deps) |-> "pending"]
    /\ (ms.skipped \/ wrote # NoWrite)

\* C16: once the platform phase has succeeded, the run returns success
\* whatever the outcome of the declared dependencies.
C16_DependencyFailuresNotFatal ==
    [](PlatformOk => [](pc = "done" => ret))

\* a run has returned success although every one of its dependencies, two
\* of them, failed
C16_Witness ==
    /\ entry = "download_symbols"
    /\ pc = "done"
    /\ ret
    /\ Len(deps) = 2
    /\ \A i \in 1..Len(deps) : dl.outcome[i] = "failed"

\* line 1003: the names by which a core platform symbol is recognised
CoreNames ==
    { <<"S","y","s","t","e","m">>,
      <<"B","a","s","e"," ","A","p","p","l","i","c","a","t","i","o","n">>,
      <<"A","p","p","l","i","c","a","t","i","o","n">> }

\* lines 1003-1007: the *.app files whose name contains a core name
microsoft_symbols(fs) ==
    {f \in GlobApp(fs) : \E core \in CoreNames : Contains(f, core)}

\* C17: a run of download_symbols that returned success left at least one
\* *.app file whose name contains a core platform name.
C17_SuccessNeedsCoreSymbol ==
    (entry = "download_symbols" /\ pc = "done" /\ ret) =>
        microsoft_symbols(files) # {}

\* the registry's answers to the download requests made so far are those of
\* a registry that accepts only the legacy-token header: every bearer
\* request was refused and every legacy-token request was answered 200 with
\* an archive that holds an artifact
AcceptsOnlyLegacy ==
    \A n \in 1..Len(gh.attempts) :
       /\ gh.attempts[n].scheme = "Bearer" => gh.attempts[n].status # 200
       /\ gh.attempts[n].scheme = "token" => gh.attempts[n].ok

\* the GitHub fallback has just ended for a dependency after the AppSource
\* feed matched none of its candidates and the registry listed its package
\* with a version
FallbackEnded ==
    /\ entry = "download_symbols"
    /\ pc = "deps"
    /\ dl.i > 1
    /\ <<dl.i - 1, "github">> \in invoked
    /\ tried # <<>>
    /\ \A n \in 1..Len(tried) : ~tried[n].result
    /\ gh.version # <<>>

\* the dependency is resolved by exactly two download requests, bearer then
\* legacy token, the second of which wrote the artifact
TwoAttempts ==
    /\ dl.outcome[dl.i - 1] = "github"
    /\ Schemes = <<"Bearer", "token">>
    /\ gh.attempts[2].ok
    /\ wrote.by = "github"
    /\ wrote.name \in DOMAIN files
    /\ dl.artifact[dl.i - 1] = wrote.name

\* C18: when the GitHub fallback has ended for a dependency that the
\* AppSource feed did not match, whose package the registry lists with a
\* version, and the registry accepts only the legacy-token header, the
\* dependency is resolved with one artifact after exactly two download
\* requests, bearer then legacy token.
C18_FallbackTwoAttempts ==
    (FallbackEnded /\ AcceptsOnlyLegacy) => TwoAttempts

\* C19: the dependencies are processed one at a time in declared order: the
\* ones before the current position have an outcome and the others have
\* none, no request or lookup is made for a dependency after the current
\* one, an outcome once recorded never changes, the position moves by one
\* dependency at a time, and the run reaches its summary only when every
\* dependency has an outcome, whatever failed on the way.
C19_EachDependencyOnceInOrder ==
    /\ [](entry = "download_symbols" =>
            /\ dl.i \in 1..(Len(deps) + 1)
            /\ \A n \in 1..Len(deps) : (n < dl.i) <=> (dl.outcome[n] # "pending")
            /\ \A x \in invoked : x[1] <= dl.i
            /\ \A c \in calls : c.who <= dl.i
            /\ pc \in {"appsource", "gh_start", "gh_api", "gh_nuget", "gh_basic"}
                  => dl.i <= Len(deps)
            /\ pc \in {"summary", "done"} => dl.i = Len(deps) + 1)
    /\ [][entry = "download_symbols" =>
            /\ dl'.i \in {dl.i, dl.i + 1}
            /\ \A n \in 1..Len(deps) :
                  dl.outcome[n] # "pending" =>
                     /\ dl'.outcome[n] = dl.outcome[n]
                     /\ dl'.artifact[n] = dl.artifact[n]]_vars

\* a run is done whose first dependency failed in the GitHub fallback after
\* a refused download and whose second dependency was then resolved
C19_Witness ==
    /\ entry = "download_symbols"
    /\ pc = "done"
    /\ Len(deps) = 2
    /\ dl.outcome[1] = "failed"
    /\ <<1, "github">> \in invoked
    /\ dl.outcome[2] = "appsource"
    /\ dl.artifact[2] \in DOMAIN files

\* C20: the file written by a successful GitHub download is named
\* '{publisher}_{name}_github.app', publisher and name having their spaces
\* replaced, their parentheses removed and their dots replaced, and that file
\* holds the extracted content.
C20_GithubFileNamed ==
    (pc \in {"deps", "returned"} /\ wrote.by = "github") =>
       LET dep == deps[IF pc = "returned" THEN 1 ELSE dl.i - 1]
       IN  /\ wrote.name = SafeFileName(dep.publisher) \o <<"_">>
                             \o SafeFileName(dep.name) \o STR_github_app
           /\ wrote.name \in DOMAIN files
           /\ files[wrote.name] = wrote.content

\* the number NN of a version string 'bcNN', -1 for a string of another shape
VersionNumber(v) ==
    IF /\ Len(v) = 4
       /\ Lower(SubSeq(v, 1, 2)) = STR_bc
       /\ v[3] \in Digits
       /\ v[4] \in Digits
    THEN 10 * DigitValue(v[3]) + DigitValue(v[4])
    ELSE -1

\* the target major version: the number of a recognised version string, the
\* latest version for every other string
TargetMajor(v) ==
    IF VersionNumber(v) \in FirstMajor..LatestMajor THEN VersionNumber(v)
    ELSE LatestMajor

\* C21: the packages requested are application, base-application,
\* system-application and platform in this order, followed by
\* business-foundation exactly when the target major version is 24 or more,
\* an unrecognised version string counting as version 26.
C21_CorePackages ==
    (entry = "symbol_packages" /\ pc = "returned") =>
       /\ Len(ret) \in {4, 5}
       /\ SubSeq(ret, 1, 4) = << STR_application_symbols,
                                 STR_baseapplication_symbols,
                                 STR_systemapplication_symbols,
                                 STR_platform_symbols >>
       /\ Len(ret) = 5 => ret[5] = STR_businessfoundation_symbols
       /\ (Len(ret) = 5) <=> (TargetMajor(arg) >= BusinessFoundationMajor)

\* the list for version 24 ends with business-foundation
C21_Witness ==
    /\ entry = "symbol_packages"
    /\ pc = "returned"
    /\ arg = <<"b","c","2","4">>
    /\ Len(ret) = 5

\* the major component of an application version: what precedes its first dot
MajorComponent(application) ==
    CHOOSE m \in {SubSeq(application, 1, n) : n \in 0..Len(application)} :
       /\ \A k \in 1..Len(m) : m[k] # "."
       /\ Len(m) = Len(application) \/ application[Len(m) + 1] = "."

\* C22: detect_bc_version returns a build_type other than 'auto' unchanged;
\* with 'auto' it returns 'bc' followed by the major component of the
\* manifest's application version when that component is one of 17..26, and
\* 'bccloud' for every other application version and for a missing one.
C22_DetectBcVersion ==
    (entry = "detect_bc_version" /\ pc = "returned") =>
       LET application == arg.app_data.application
           major == IF application = NoKey THEN <<>>
                    ELSE MajorComponent(application)
           known == /\ Len(major) = 2
                    /\ major[1] \in Digits
                    /\ major[2] \in Digits
                    /\ 10 * DigitValue(major[1]) + DigitValue(major[2]) \in 17..26
       IN  /\ arg.build_type # STR_auto => ret = arg.build_type
           /\ (arg.build_type = STR_auto /\ known) => ret = STR_bc \o major
           /\ (arg.build_type = STR_auto /\ ~known) => ret = STR_bccloud

\* version 26.0.0.0 was detected as bc26
C22_Witness ==
    /\ entry = "detect_bc_version"
    /\ pc = "returned"
    /\ arg.build_type = STR_auto
    /\ arg.app_data.application = <<"2","6",".","0",".","0",".","0">>
    /\ ret = <<"b","c","2","6">>

\* the 'from' values of the ranges declared by a manifest, 0 for a range
\* without 'from'
DeclaredFrom(manifest) ==
    IF "idRanges" \in DOMAIN manifest
    THEN { IF "from" \in DOMAIN manifest.idRanges[n]
           THEN manifest.idRanges[n].from ELSE 0 :
             n \in 1..Len(manifest.idRanges) }
    ELSE {}

\* C23: each flag of analyze_id_ranges is set exactly when a declared range
\* has its 'from' in the flag's class: 100000 and above AppSource, 50000 to
\* 99999 PTE, 1 to 49999 custom, below 1 internal; with no range every flag
\* is false.
C23_IdRangeFlags ==
    (entry = "analyze_id_ranges" /\ pc = "returned") =>
       LET from == DeclaredFrom(arg)
       IN  /\ ret.isAppSource <=> (\E f \in from : f >= 100000)
           /\ ret.isPTE <=> (\E f \in from : f \in 50000..99999)
           /\ ret.hasCustomRange <=> (\E f \in from : f \in 1..49999)
           /\ ret.isInternal <=> (\E f \in from : f < 1)

\* a PTE range and an AppSource range, one starting at each limit, set both
\* flags and no other
C23_Witness ==
    /\ entry = "analyze_id_ranges"
    /\ pc = "returned"
    /\ DeclaredFrom(arg) = {50000, 100000}
    /\ ret.isAppSource
    /\ ret.isPTE
    /\ ~ret.hasCustomRange
    /\ ~ret.isInternal

\* C24: when the manifest mapped to the BC version exists (and app.json
\* does), handle_version_specific_app_json leaves the former content of
\* app.json in app.json.backup and the manifest's content in app.json,
\* changes no other file and returns the manifest's file name; when no
\* manifest is mapped or the mapped one is absent it returns None and leaves
\* the directory as it was, so app.json is unchanged and no backup is made.
C24_VersionSpecificManifest ==
    (entry = "handle_version_specific_app_json" /\ pc = "returned") =>
       LET before == arg.files
           version_file == version_files(arg.bc_version)
       IN  /\ (version_file \in DOMAIN before /\ "app.json" \in DOMAIN before) =>
                /\ ret = version_file
                /\ DOMAIN files = DOMAIN before \cup {"app.json.backup"}
                /\ files["app.json.backup"] = before["app.json"]
                /\ files["app.json"] = before[version_file]
                /\ \A n \in DOMAIN before \ {"app.json", "app.json.backup"} :
                      files[n] = before[n]
           /\ version_file \notin DOMAIN before =>
                /\ ret = None
                /\ files = before

\* the bc22 manifest replaced app.json and the backup left by an earlier run
\* now holds the former app.json
C24_Witness ==
    /\ entry = "handle_version_specific_app_json"
    /\ pc = "returned"
    /\ arg.bc_version = "bc22"
    /\ ret = "bc22_app.json"
    /\ "app.json.backup" \in DOMAIN arg.files
    /\ files["app.json.backup"] = "original"
    /\ files["app.json"] = "bc22_app.json"

\* C25: when build has ended, by a return or by an exception, app.json is
\* as it was before the call (present with the same content, or absent) and
\* there is no app.json.backup.
C25_ManifestRestored ==
    (entry = "build" /\ pc = "returned") =>
       /\ ("app.json" \in DOMAIN files) <=> ("app.json" \in DOMAIN arg.files)
       /\ "app.json" \in DOMAIN files => files["app.json"] = arg.files["app.json"]
       /\ "app.json.backup" \notin DOMAIN files

\* the GitHub fallback has just reported success: download_from_linc_github
\* returned True to its caller
GithubSucceeded ==
    \/ /\ entry = "download_from_linc_github"
       /\ pc = "returned"
       /\ ret = TRUE
    \/ /\ entry = "download_symbols"
       /\ pc = "deps"
       /\ dl.i > 1
       /\ dl.outcome[dl.i - 1] = "github"

\* C26: when download_from_linc_github has returned True, a file for the
\* dependency, an extracted artifact or a placeholder, was written to the
\* directory during the call and is there.
C26_SuccessWroteFile ==
    GithubSucceeded =>
       /\ wrote.by \in {"github", "placeholder"}
       /\ wrote.name \in DOMAIN files
       /\ files[wrote.name] = wrote.content

\* C27: every file written by the GitHub fallback, artifact or placeholder,
\* has a name ending in '.app' and is among the files matched by '*.app'.
C27_GithubFilesAreApp ==
    wrote.by \in {"github", "placeholder"} =>
       /\ EndsWith(wrote.name, STR_app)
       /\ wrote.name \in GlobApp(files)

\* the steps of the pipeline that were run, in order
StepsRun ==
    LET RECURSIVE Dedup(_)
        Dedup(s) == IF Len(s) <= 1 THEN s
                    ELSE IF s[1] = s[2] THEN Dedup(Tail(s))
                    ELSE <<s[1]>> \o Dedup(Tail(s))
    IN  Dedup([n \in 1..Len(tried) |-> tried[n].step])

\* C28: when the pipeline has ended, the steps it ran are the first ones of
\* setup, analyze, download symbols, build, sign, publish, in this order;
\* it returned False only after the failure of setup, analysis or build,
\* so a pipeline that found .NET, whose setup has then nothing to fail on,
\* went on to the analysis.
C28_StepsInOrder ==
    (entry = "full_build_pipeline" /\ pc = "returned") =>
       /\ \E n \in 1..6 :
            StepsRun = SubSeq(<<"setup", "analyze", "download", "build", "sign",
                                "publish">>, 1, n)
       /\ (\E n \in 1..Len(tried) :
             tried[n].call = "check_dotnet" /\ tried[n].result = "True")
          => Len(StepsRun) >= 2

\* the steps of sign_app_file that handle the certificate or a signing tool
CertificateOrToolSteps ==
    {"check_signing_tools", "get_certificate_from_keyvault", "decode_certificate",
     "sign_with_signtool", "sign_with_osslsigncode", "verify_signature"}

TargetMissing ==
    arg.app_file_path = "" \/ arg.app_file_path \notin DOMAIN arg.files

AlExtensionOffWindows ==
    /\ ~TargetMissing
    /\ is_al_extension(arg.files, arg.app_file_path)
    /\ ~inputs.is_windows
    /\ ~arg.force
    /\ ~arg.test_mode

\* C29: a call of sign_app_file on an AL extension (first 4 bytes 'NAVX')
\* off Windows with neither force nor test_mode never reaches a step that
\* decodes or fetches the certificate or invokes a signing tool, and returns
\* False; a call on a missing file returns False with no step taken at all.
C29_RejectedBeforeCertificate ==
    (entry = "sign_app_file" /\ (TargetMissing \/ AlExtensionOffWindows)) =>
       /\ \A n \in 1..Len(tried) : tried[n] \notin CertificateOrToolSteps
       /\ TargetMissing => tried = <<>>
       /\ pc \in {"call", "returned"}
       /\ pc = "returned" => ret = FALSE
       /\ files = arg.files

C29_Witness ==
    /\ entry = "sign_app_file"
    /\ AlExtensionOffWindows
    /\ pc = "returned"
    /\ ret = FALSE
    /\ arg.cert_base64 # None
    /\ arg.cert_password # None
    /\ tried = <<"check_platform_compatibility">>

OsslsigncodeRan ==
    /\ entry = "sign_app_file"
    /\ pc = "returned"
    /\ \E n \in 1..Len(tried) : tried[n] = "sign_with_osslsigncode"

ToolFailed == ~net.outcome.ran \/ net.outcome.returncode # 0

\* C30: after sign_with_osslsigncode, when the tool could not be run or ended
\* with a return code other than 0, the file has the content it had before,
\* no '<file>.signed' exists and the result is False; the content of the file
\* differs from the one before only when the tool ended with return code 0.
C30_FailureLeavesOriginal ==
    OsslsigncodeRan =>
       /\ ToolFailed =>
            /\ files[arg.app_file_path] = arg.files[arg.app_file_path]
            /\ SignedPath(arg.app_file_path) \notin DOMAIN files
            /\ ret = FALSE
       /\ files[arg.app_file_path] # arg.files[arg.app_file_path] =>
            /\ net.outcome.ran
            /\ net.outcome.returncode = 0

C30_Witness ==
    /\ OsslsigncodeRan
    /\ net.outcome.ran
    /\ net.outcome.returncode = 1
    /\ net.outcome.output
    /\ SignedPath(arg.app_file_path) \in DOMAIN arg.files
    /\ SignedPath(arg.app_file_path) \notin DOMAIN files
    /\ files[arg.app_file_path] = arg.files[arg.app_file_path]

=============================================================================
